---- MODULE Spec2Model ----
(***************************************************************************)
(* ktop: the metrics Collector (package metrics), its snapshot store, and  *)
(* the interactive polling loop of the TUI (package ui).                   *)
(*                                                                         *)
(* Spec is the Collector under the polling loop against a cluster that     *)
(* may change; AppSpec adds the redraw task and the key handlers, against  *)
(* a cluster that stays as it is; AppFairSpec is AppSpec with fairness.    *)
(* FuncSpec applies the sort, filter and limit functions of the tables to  *)
(* bounded inputs; MainSpec is main from the command line on: validation,  *)
(* the export mode (--show) and the interactive App.                       *)
(* AppLiveSpec is AppFairSpec with a loop that keeps serving its channels; *)
(* KeySpec is the key handlers alone (sort cycles, namespace filter) over  *)
(* every namespace list the Collector can cache, and KeyFairSpec is        *)
(* KeySpec with the pod-sort key pressed again and again.                  *)
(*                                                                         *)
(* A Collect cycle is modelled step by step, one action per network read,  *)
(* so that readers and the environment interleave with it exactly where    *)
(* the Go code can be suspended.                                           *)
(*                                                                         *)
(* Floating-point percentages are kept as exact rationals [num, den] in    *)
(* lowest terms; +Inf and NaN (division by zero) are [1,0] and [0,0].      *)
(***************************************************************************)
EXTENDS Integers, Sequences, FiniteSets, TLC

\* ------------------------------------------------------------------ bounds
MaxNodes == 2
MaxPods == 1
MaxSrcChanges == 1
MaxCycles == 2
MaxPresses == 2
TopPods == 2

\* ------------------------------------------------------------- state
VARIABLES
  src,          \* what the cluster API would answer now
  srcChanges,   \* number of changes the cluster has gone through
  now,          \* the clock: time.Now() of the next Collect
  lastMetrics,  \* Collector.lastMetrics (the Store), Nil before the first install
  namespaces,   \* Collector.namespaces
  cpc,          \* position of the Collect in flight
  metrics,      \* Collect's local: the ClusterMetrics under construction
  nodes,        \* Collect's local: the node list fetchNodes returned
  metricsMap,   \* fetchPodMetrics' local: usage by namespace/name
  ret,          \* what the last Collect returned: [m, err]
  appMetrics,   \* App.metrics, what the redraw task reads
  lpc,          \* position of metricsLoop
  refreshNow,   \* number of requests buffered in App.refreshNow (capacity 1)
  tickPending,  \* number of ticks buffered in ticker.C (capacity 1)
  cancelled,    \* App.ctx is done
  cyc,          \* outcome of each read of the current (or last) cycle
  prevOk,       \* every read of the cycle before it succeeded
  storeBefore,  \* lastMetrics when the current (or last) cycle started
  appBefore,    \* App.metrics when the current (or last) fetchMetrics started
  stable,       \* cycles started since the cluster last changed, capped at 2
  mu,           \* holder of Collector.mu: "free", or "collect" while Collect has it
  rpc,          \* position of refreshLoop
  view,         \* what the last updateUI put in the tables, Nil before the first
  presses,      \* 'r' presses since refreshNow was last received from, capped
  quitAt,       \* what the scheduler did when 'q' was pressed, "none" before
  trigger,      \* what started the current (or last) Collect
  cfg,          \* the Config main parsed from the command line
  mainPc,       \* position of main
  exitCode,     \* <<code>> once main has called os.Exit or returned, else <<>>
  arg,          \* the call a sort, filter or limit function is applied to
  out,          \* the results of the applications so far
  appState      \* App.state: the sort fields and directions, the filters

\* ------------------------------------------------------- nil and errors
Nil == [nil |-> TRUE]
NoErr == "nil"
ErrRead == "read failed"
ErrNodes == "failed to fetch nodes"
ErrNodeMetrics == "failed to fetch node metrics"
ErrPodMetrics == "failed to fetch pod metrics"

NodeStatusReady == "Ready"
NodeStatusNotReady == "NotReady"
NodeStatusUnknown == "Unknown"

\* ---------------------------------------------- Resource-State Source
\* A node as the API reports it: descriptor fields plus the usage sample the
\* metrics API holds for it (Nil: no sample). Absent map entries are -1.
NodeNames == <<"n1", "n2", "n3">>

NodeKinds ==
  { [cpuCap |-> 4000, memCap |-> 8, disk |-> 100, ready |-> "True",
     gpuCap |-> -1, gpuAlloc |-> -1, sample |-> [cpu |-> 1000, mem |-> 2]],
    [cpuCap |-> 1500, memCap |-> 4, disk |-> -1, ready |-> "False",
     gpuCap |-> 0, gpuAlloc |-> 2, sample |-> [cpu |-> 2000, mem |-> 5]],
    [cpuCap |-> 0, memCap |-> 0, disk |-> 0, ready |-> "None",
     gpuCap |-> 2, gpuAlloc |-> 2, sample |-> [cpu |-> 500, mem |-> 1]],
    [cpuCap |-> 1500, memCap |-> 8, disk |-> 50, ready |-> "True",
     gpuCap |-> -1, gpuAlloc |-> 1, sample |-> Nil] }

\* A pod as the API reports it, with the per-container usage samples the
\* metrics API holds for it (Nil: no sample).
PodKinds ==
  { [namespace |-> "default", name |-> "web", nodeName |-> "n1",
     phase |-> "Running", containers |-> 2, restarts |-> <<1, 2>>,
     sample |-> [containers |-> << [cpu |-> 100, mem |-> 1], [cpu |-> 50, mem |-> 2] >>]],
    [namespace |-> "kube-system", name |-> "web", nodeName |-> "n2",
     phase |-> "Pending", containers |-> 1, restarts |-> <<0>>,
     sample |-> Nil],
    [namespace |-> "default", name |-> "db", nodeName |-> "",
     phase |-> "Evicted", containers |-> 1, restarts |-> <<3>>,
     sample |-> [containers |-> << [cpu |-> 10, mem |-> 1] >>]] }

Min(a, b) == IF a < b THEN a ELSE b

NodeLists ==
  UNION { [1..k -> NodeKinds] : k \in 0..Min(MaxNodes, Len(NodeNames)) }

IsInjective(s) == \A i, j \in DOMAIN s : s[i] = s[j] => i = j

PodLists ==
  { s \in UNION { [1..k -> PodKinds] : k \in 0..Min(MaxPods, Cardinality(PodKinds)) } :
      IsInjective(s) }

Named(kinds) ==
  [i \in DOMAIN kinds |-> [name |-> NodeNames[i], kind |-> kinds[i]]]

Sources == { [nodes |-> Named(nl), pods |-> pl] : nl \in NodeLists, pl \in PodLists }

\* ------------------------------------------------------------ arithmetic
RECURSIVE GCD(_, _)
GCD(a, b) == IF b = 0 THEN a ELSE GCD(b, a % b)

Ratio(n, d) == LET g == GCD(n, d) IN [num |-> n \div g, den |-> d \div g]
ZeroPct == [num |-> 0, den |-> 1]

\* float64(a) / float64(b) * 100
FloatPercent(a, b) ==
  IF b = 0 THEN (IF a = 0 THEN [num |-> 0, den |-> 0] ELSE [num |-> 1, den |-> 0])
  ELSE Ratio(a * 100, b)

ZeroUsage == [current |-> 0, capacity |-> 0, percent |-> ZeroPct]

RECURSIVE SumSeq(_)
SumSeq(s) == IF s = <<>> THEN 0 ELSE Head(s) + SumSeq(Tail(s))

\* ------------------------------------------------------------- models
\* Mutant: the cached ClusterMetrics is reused for the next cycle, its lists
\* cleared but its totals kept.
NewMetricsReused(ts) ==
  IF lastMetrics = Nil
  THEN [timestamp |-> ts, nodes |-> <<>>, pods |-> <<>>, error |-> NoErr,
        totalCPUCapacity |-> 0, totalCPUUsed |-> 0, totalCPUCores |-> 0,
        totalMemoryCapacity |-> 0, totalMemoryUsed |-> 0,
        totalDiskCapacity |-> 0, totalDiskUsed |-> 0,
        totalGPUs |-> 0, totalPods |-> 0, totalNodes |-> 0, readyNodes |-> 0]
  ELSE [lastMetrics EXCEPT !.timestamp = ts, !.nodes = <<>>, !.pods = <<>>,
                           !.error = NoErr]

\* Collect, lines 42-45: a zero-valued ClusterMetrics with the current time.
NewMetrics(ts) ==
  [timestamp |-> ts, nodes |-> <<>>, pods |-> <<>>, error |-> NoErr,
   totalCPUCapacity |-> 0, totalCPUUsed |-> 0, totalCPUCores |-> 0,
   totalMemoryCapacity |-> 0, totalMemoryUsed |-> 0,
   totalDiskCapacity |-> 0, totalDiskUsed |-> 0,
   totalGPUs |-> 0, totalPods |-> 0, totalNodes |-> 0, readyNodes |-> 0]

\* ---------------------------------------------------------- Collector
\* The map fetchNodeMetrics builds from the node usage samples.
NodeMetricsOf(s) ==
  LET have == { i \in DOMAIN s.nodes : s.nodes[i].kind.sample # Nil }
      idx(nm) == CHOOSE i \in have : s.nodes[i].name = nm
  IN [nm \in { s.nodes[i].name : i \in have } |->
        [CPU |-> s.nodes[idx(nm)].kind.sample.cpu,
         Memory |-> s.nodes[idx(nm)].kind.sample.mem]]

\* A nil map: every lookup misses.
NoNodeMetrics == [nm \in {} |-> Nil]

\* Mutant: a node that reports no Ready condition counts as NotReady.
getNodeStatusMissingIsNotReady(n) ==
  IF n.kind.ready = "True" THEN NodeStatusReady ELSE NodeStatusNotReady

\* getNodeStatus: the first Ready condition decides; Unknown when there is none.
getNodeStatus(n) ==
  IF n.kind.ready = "None" THEN NodeStatusUnknown
  ELSE IF n.kind.ready = "True" THEN NodeStatusReady
  ELSE NodeStatusNotReady

\* Mutant: every cached pod is counted, whatever node it runs on.
countPodsOnNodeAnyNode(last, nodeName) ==
  IF last = Nil THEN 0 ELSE Len(last.pods)

\* countPodsOnNode reads the cached snapshot, not the one under construction.
countPodsOnNode(last, nodeName) ==
  IF last = Nil THEN 0
  ELSE Cardinality({ i \in DOMAIN last.pods : last.pods[i].nodeName = nodeName })

getGPUInfo(n) ==
  LET present == n.kind.gpuCap # -1 \/ n.kind.gpuAlloc # -1
      count == IF n.kind.gpuCap # -1 THEN n.kind.gpuCap ELSE n.kind.gpuAlloc
  IN IF ~present THEN Nil
     ELSE IF count = 0 THEN Nil
     ELSE [count |-> count]

\* Mutant: the capacity > 0 guard is missing.
NodePercentUnguarded(current, capacity) == FloatPercent(current, capacity)

\* The percent mergeNodeData leaves in a ResourceUsage whose capacity and
\* sampled usage are given: assigned only under the capacity > 0 guard.
NodePercent(current, capacity) ==
  IF capacity > 0 THEN FloatPercent(current, capacity) ELSE ZeroPct

\* One iteration of mergeNodeData's loop.
MergeNode(n, nodeMetrics, last) ==
  LET sampled == n.name \in DOMAIN nodeMetrics
      cpuCap == n.kind.cpuCap
      memCap == n.kind.memCap
      diskCap == IF n.kind.disk # -1 THEN n.kind.disk ELSE 0
  IN [name |-> n.name,
      status |-> getNodeStatus(n),
      cpu |-> IF sampled
              THEN [current |-> nodeMetrics[n.name].CPU, capacity |-> cpuCap,
                    percent |-> NodePercent(nodeMetrics[n.name].CPU, cpuCap)]
              ELSE [ZeroUsage EXCEPT !.capacity = cpuCap],
      memory |-> IF sampled
                 THEN [current |-> nodeMetrics[n.name].Memory, capacity |-> memCap,
                       percent |-> NodePercent(nodeMetrics[n.name].Memory, memCap)]
                 ELSE [ZeroUsage EXCEPT !.capacity = memCap],
      disk |-> [ZeroUsage EXCEPT !.capacity = diskCap],
      podCount |-> countPodsOnNode(last, n.name),
      gpu |-> getGPUInfo(n)]

\* Mutant: a node without a usage sample is left out of the result.
mergeNodeDataSkipsUnsampled(nodeList, nodeMetrics, last) ==
  LET all == [i \in DOMAIN nodeList |-> MergeNode(nodeList[i], nodeMetrics, last)]
  IN SelectSeq(all, LAMBDA n : n.name \in DOMAIN nodeMetrics)

mergeNodeData(nodeList, nodeMetrics, last) ==
  [i \in DOMAIN nodeList |-> MergeNode(nodeList[i], nodeMetrics, last)]

\* The metricsMap fetchPodMetrics builds, keyed by namespace/name.
PodMetricsOf(s) ==
  LET have == { i \in DOMAIN s.pods : s.pods[i].sample # Nil }
      idx(k) == CHOOSE i \in have : <<s.pods[i].namespace, s.pods[i].name>> = k
  IN [k \in { <<s.pods[i].namespace, s.pods[i].name>> : i \in have } |->
        LET cs == s.pods[idx(k)].sample.containers
        IN [CPU |-> SumSeq([j \in DOMAIN cs |-> cs[j].cpu]),
            Memory |-> SumSeq([j \in DOMAIN cs |-> cs[j].mem])]]

getPodStatus(p) ==
  IF p.phase \in {"Running", "Pending", "Succeeded", "Failed"} THEN p.phase
  ELSE "Unknown"

\* One iteration of fetchPodMetrics' loop over the pod list.
\* Mutant: the usage is looked up by pod name alone.
BuildPodByName(p, usage) ==
  LET named == { k \in DOMAIN usage : k[2] = p.name }
      hit == named # {}
      key == CHOOSE k \in named : TRUE
  IN [namespace |-> p.namespace,
      name |-> p.name,
      nodeName |-> p.nodeName,
      status |-> getPodStatus(p),
      containerCount |-> p.containers,
      restartCount |-> SumSeq(p.restarts),
      cpu |-> IF hit THEN usage[key].CPU ELSE 0,
      memory |-> IF hit THEN usage[key].Memory ELSE 0]

BuildPod(p, usage) ==
  LET key == <<p.namespace, p.name>>
      hit == key \in DOMAIN usage
  IN [namespace |-> p.namespace,
      name |-> p.name,
      nodeName |-> p.nodeName,
      status |-> getPodStatus(p),
      containerCount |-> p.containers,
      restartCount |-> SumSeq(p.restarts),
      cpu |-> IF hit THEN usage[key].CPU ELSE 0,
      memory |-> IF hit THEN usage[key].Memory ELSE 0]

BuildPods(pods, usage) == [i \in DOMAIN pods |-> BuildPod(pods[i], usage)]

\* sort.Strings over the namespaces of the model: LexOrder lists them in
\* ascending byte order.
LexOrder == <<"default", "kube-system">>

SortStrings(set) ==
  LET keep == { i \in DOMAIN LexOrder : LexOrder[i] \in set }
      rank(i) == Cardinality({ j \in keep : j <= i })
  IN [r \in 1..Cardinality(keep) |-> LexOrder[CHOOSE i \in keep : rank(i) = r]]

\* Mutant: one entry per pod, in pod order, instead of the sorted set.
NamespacesOfPerPod(pods) == [i \in DOMAIN pods |-> pods[i].namespace]

\* fetchPodMetrics, lines 280-324: the keys of nsSet, sorted.
NamespacesOf(pods) == SortStrings({ pods[i].namespace : i \in DOMAIN pods })

\* Mutant: a later failure overwrites the error already recorded.
AfterPodFetchOverwrites(m, pods, err) ==
  [m EXCEPT !.error = IF err # NoErr THEN ErrPodMetrics ELSE m.error,
            !.pods = pods]

\* Collect, lines 69-75: the result of fetchPodMetrics is absorbed.
AfterPodFetch(m, pods, err) ==
  [m EXCEPT !.error = IF err # NoErr /\ m.error = NoErr THEN ErrPodMetrics ELSE m.error,
            !.pods = pods]

\* Mutant: the core count is taken from the summed capacity.
calculateAggregatesCoresOfTotal(m) ==
  LET ns == m.nodes
      over(F(_)) == SumSeq([i \in DOMAIN ns |-> F(ns[i])])
      cpuCapacity(n) == n.cpu.capacity
      cpuCurrent(n) == n.cpu.current
      memCapacity(n) == n.memory.capacity
      memCurrent(n) == n.memory.current
      diskCapacity(n) == n.disk.capacity
      diskCurrent(n) == n.disk.current
      gpus(n) == IF n.gpu # Nil THEN n.gpu.count ELSE 0
      ready(n) == IF n.status = NodeStatusReady THEN 1 ELSE 0
  IN [m EXCEPT !.totalNodes = Len(m.nodes),
               !.totalPods = Len(m.pods),
               !.totalCPUCapacity = @ + over(cpuCapacity),
               !.totalCPUUsed = @ + over(cpuCurrent),
               !.totalMemoryCapacity = @ + over(memCapacity),
               !.totalMemoryUsed = @ + over(memCurrent),
               !.totalDiskCapacity = @ + over(diskCapacity),
               !.totalDiskUsed = @ + over(diskCurrent),
               !.totalCPUCores = (m.totalCPUCapacity + over(cpuCapacity)) \div 1000,
               !.totalGPUs = @ + over(gpus),
               !.readyNodes = @ + over(ready)]

\* Mutant: every node that is not NotReady counts as ready.
calculateAggregatesLooseReady(m) ==
  LET ns == m.nodes
      ready(n) == IF n.status # NodeStatusNotReady THEN 1 ELSE 0
  IN [m EXCEPT !.totalNodes = Len(m.nodes),
               !.totalPods = Len(m.pods),
               !.totalCPUCapacity = @ + SumSeq([i \in DOMAIN ns |-> ns[i].cpu.capacity]),
               !.totalCPUUsed = @ + SumSeq([i \in DOMAIN ns |-> ns[i].cpu.current]),
               !.totalMemoryCapacity = @ + SumSeq([i \in DOMAIN ns |-> ns[i].memory.capacity]),
               !.totalMemoryUsed = @ + SumSeq([i \in DOMAIN ns |-> ns[i].memory.current]),
               !.totalDiskCapacity = @ + SumSeq([i \in DOMAIN ns |-> ns[i].disk.capacity]),
               !.totalDiskUsed = @ + SumSeq([i \in DOMAIN ns |-> ns[i].disk.current]),
               !.totalCPUCores = @ + SumSeq([i \in DOMAIN ns |-> ns[i].cpu.capacity \div 1000]),
               !.totalGPUs = @ + SumSeq([i \in DOMAIN ns |->
                                          IF ns[i].gpu # Nil THEN ns[i].gpu.count ELSE 0]),
               !.readyNodes = @ + SumSeq([i \in DOMAIN ns |-> ready(ns[i])])]

calculateAggregates(m) ==
  LET ns == m.nodes
      over(F(_)) == SumSeq([i \in DOMAIN ns |-> F(ns[i])])
      cpuCapacity(n) == n.cpu.capacity
      cpuCurrent(n) == n.cpu.current
      memCapacity(n) == n.memory.capacity
      memCurrent(n) == n.memory.current
      diskCapacity(n) == n.disk.capacity
      diskCurrent(n) == n.disk.current
      cores(n) == n.cpu.capacity \div 1000
      gpus(n) == IF n.gpu # Nil THEN n.gpu.count ELSE 0
      ready(n) == IF n.status = NodeStatusReady THEN 1 ELSE 0
  IN [m EXCEPT !.totalNodes = Len(m.nodes),
               !.totalPods = Len(m.pods),
               !.totalCPUCapacity = @ + over(cpuCapacity),
               !.totalCPUUsed = @ + over(cpuCurrent),
               !.totalMemoryCapacity = @ + over(memCapacity),
               !.totalMemoryUsed = @ + over(memCurrent),
               !.totalDiskCapacity = @ + over(diskCapacity),
               !.totalDiskUsed = @ + over(diskCurrent),
               !.totalCPUCores = @ + over(cores),
               !.totalGPUs = @ + over(gpus),
               !.readyNodes = @ + over(ready)]

\* ------------------------------------------------- sort, filter, limit
\* Strings in ascending byte order (upper case sorts before lower case).
ByteOrder == <<"", "Failed", "N1", "NotReady", "Pending", "Ready", "Running",
               "Succeeded", "Unknown", "Web", "db", "default", "kube-node-lease",
               "kube-public", "kube-system", "n1", "n2", "n3", "prod", "web">>

StrRank(str) == CHOOSE i \in DOMAIN ByteOrder : ByteOrder[i] = str
StrLess(a, b) == StrRank(a) < StrRank(b)

\* strings.ToLower on the names of ByteOrder.
ToLower(str) ==
  CASE str = "N1" -> "n1"
    [] str = "Web" -> "web"
    [] OTHER -> str

\* a < b on float64 percentages that are finite.
PctLess(a, b) == a.num * b.den < b.num * a.den

NodeSortFields == {"NodeName", "NodeCPU", "NodeMemory", "NodeStatus", "NodePods"}
PodSortFields == {"PodNamespace", "PodName", "PodCPU", "PodMemory", "PodStatus"}

\* The comparison SortNodes hands to sort.Slice.
NodeLess(a, b, field, ascending) ==
  LET less == CASE field = "NodeName" -> StrLess(ToLower(a.name), ToLower(b.name))
                [] field = "NodeCPU" -> PctLess(a.cpu.percent, b.cpu.percent)
                [] field = "NodeMemory" -> PctLess(a.memory.percent, b.memory.percent)
                [] field = "NodeStatus" -> StrLess(a.status, b.status)
                [] field = "NodePods" -> a.podCount < b.podCount
                [] OTHER -> StrLess(a.name, b.name)
  IN IF ascending THEN less ELSE ~less

\* The comparison SortPods hands to sort.Slice.
PodLess(a, b, field, ascending) ==
  LET less == CASE field = "PodNamespace" -> StrLess(ToLower(a.namespace), ToLower(b.namespace))
                [] field = "PodName" -> StrLess(ToLower(a.name), ToLower(b.name))
                [] field = "PodCPU" -> a.cpu < b.cpu
                [] field = "PodMemory" -> a.memory < b.memory
                [] field = "PodStatus" -> StrLess(a.status, b.status)
                [] OTHER -> StrLess(a.name, b.name)
  IN IF ascending THEN less ELSE ~less

SliceLess(a, b, kind, field, ascending) ==
  IF kind = "nodes" THEN NodeLess(a, b, field, ascending)
  ELSE PodLess(a, b, field, ascending)

Swap(s, i, j) == [s EXCEPT ![i] = s[j], ![j] = s[i]]

\* sort.Slice on a slice of fewer than 12 elements is an insertion sort:
\* element i sinks while it is less than its left neighbour.
RECURSIVE Sink(_, _, _, _, _)
Sink(s, j, kind, field, ascending) ==
  IF j > 1 /\ SliceLess(s[j], s[j - 1], kind, field, ascending)
  THEN Sink(Swap(s, j, j - 1), j - 1, kind, field, ascending)
  ELSE s

RECURSIVE InsertionSort(_, _, _, _, _)
InsertionSort(s, i, kind, field, ascending) ==
  IF i > Len(s) THEN s
  ELSE InsertionSort(Sink(s, i, kind, field, ascending), i + 1, kind, field, ascending)

SortNodes(nodeList, field, ascending) == InsertionSort(nodeList, 2, "nodes", field, ascending)
SortPods(podList, field, ascending) == InsertionSort(podList, 2, "pods", field, ascending)

SystemNamespaces == {"kube-system", "kube-public", "kube-node-lease"}

\* Mutant: every key of the SystemNamespaces map counts, 'default' included.
IsSystemNamespaceByKey(ns) == ns \in SystemNamespaces \cup {"default"}

\* IsSystemNamespace: the value the map holds, false for a missing key.
IsSystemNamespace(ns) == ns \in SystemNamespaces

FilterPods(podList, namespace, showSystem) ==
  SelectSeq(podList, LAMBDA pod :
     /\ ~(namespace # "" /\ pod.namespace # namespace)
     /\ ~(~showSystem /\ IsSystemNamespace(pod.namespace)))

\* Mutant: the cut is one row short.
LimitPodsOffByOne(podList, limit) ==
  IF Len(podList) <= limit THEN podList ELSE SubSeq(podList, 1, limit - 1)

LimitPods(podList, limit) ==
  IF Len(podList) <= limit THEN podList ELSE SubSeq(podList, 1, limit)

\* ------------------------------------------------------ variable groups
envVars == <<src, srcChanges, now>>
collectorVars == <<lastMetrics, namespaces, mu>>
collectVars == <<cpc, metrics, nodes, metricsMap, ret>>
appVars == <<appMetrics, lpc, refreshNow, tickPending, cancelled>>
histVars == <<cyc, prevOk, storeBefore, appBefore, stable>>
uiVars == <<rpc, view>>
obsVars == <<presses, quitAt, trigger>>
mainVars == <<cfg, mainPc, exitCode>>
funcVars == <<arg, out>>
keyVars == <<appState>>
vars == <<envVars, collectorVars, collectVars, appVars, histVars, uiVars, obsVars,
          mainVars, funcVars, keyVars>>

NoReads == [nodes |-> "none", nodeMetrics |-> "none", podMetrics |-> "none", podList |-> "none"]
AllOk(c) == c.nodes = "ok" /\ c.nodeMetrics = "ok" /\ c.podMetrics = "ok" /\ c.podList = "ok"
NoPodMetrics == [k \in {} |-> Nil]

\* -------------------------------------------------------------- Config
\* Durations are in milliseconds.
DefaultRefreshInterval == 2000
DefaultTimeout == 10000
MinRefreshInterval == 500
MaxRefreshInterval == 60000

\* Mutant: the lower bound on top-pods is not checked.
ValidateSkipsTopPodsFloor(c) ==
  CASE c.refreshInterval < MinRefreshInterval -> "refresh interval too small"
    [] c.refreshInterval > MaxRefreshInterval -> "refresh interval too large"
    [] c.timeout < 1000 -> "timeout too small"
    [] c.topPods > 1000 -> "top-pods too large"
    [] OTHER -> NoErr

\* Config.Validate: the first failing check is the error, in source order.
Validate(c) ==
  CASE c.refreshInterval < MinRefreshInterval -> "refresh interval too small"
    [] c.refreshInterval > MaxRefreshInterval -> "refresh interval too large"
    [] c.timeout < 1000 -> "timeout too small"
    [] c.topPods < 1 -> "top-pods too small"
    [] c.topPods > 1000 -> "top-pods too large"
    [] OTHER -> NoErr

\* NewConfig with --top-pods TopPods: the Config the interactive App of Spec
\* and AppSpec runs with.
RunConfig ==
  [refreshInterval |-> DefaultRefreshInterval, timeout |-> DefaultTimeout,
   topPods |-> TopPods, showResource |-> "", showVersion |-> FALSE, showHelp |-> FALSE]

\* DefaultAppState: both tables by CPU, highest first, every namespace but
\* the system ones.
DefaultAppState ==
  [nodeSortField |-> "NodeCPU", nodeSortAsc |-> FALSE,
   podSortField |-> "PodCPU", podSortAsc |-> FALSE,
   namespaceFilter |-> "", showSystem |-> FALSE]

\* No function call is under study.
NoCall == [op |-> "none"]

\* The state NewCollector and NewApp leave but for the namespace cache.
Wired ==
  /\ srcChanges = 0
  /\ now = 1
  /\ lastMetrics = Nil
  /\ cpc = "idle"
  /\ metrics = Nil
  /\ nodes = <<>>
  /\ metricsMap = NoPodMetrics
  /\ ret = Nil
  /\ appMetrics = Nil
  /\ lpc = "start"
  /\ refreshNow = 0
  /\ tickPending = 0
  /\ cancelled = FALSE
  /\ cyc = NoReads
  /\ prevOk = FALSE
  /\ storeBefore = Nil
  /\ appBefore = Nil
  /\ stable = 0
  /\ mu = "free"
  /\ rpc = "run"
  /\ view = Nil
  /\ presses = 0
  /\ quitAt = "none"
  /\ trigger = "none"

\* The state NewCollector and NewApp leave, whatever the cluster holds.
Constructed == Wired /\ namespaces = <<>>

\* main has validated its Config and app.Run is under way.
Start ==
  /\ Constructed
  /\ cfg = RunConfig
  /\ mainPc = "run"
  /\ exitCode = <<>>
  /\ arg = NoCall
  /\ out = <<>>
  /\ appState = DefaultAppState

Init == src \in Sources /\ Start

\* ------------------------------------------------------- environment
\* The cluster changes: the pod list is replaced, or a node joins or leaves.
SourceChange ==
  /\ srcChanges < MaxSrcChanges
  /\ \/ \E pl \in PodLists \ {src.pods} : src' = [src EXCEPT !.pods = pl]
     \/ \E nl \in NodeLists :
          /\ \/ /\ Len(nl) = Len(src.nodes) + 1
                /\ \A i \in DOMAIN src.nodes : nl[i] = src.nodes[i].kind
             \/ /\ Len(nl) = Len(src.nodes) - 1
                /\ \A i \in DOMAIN nl : nl[i] = src.nodes[i].kind
          /\ src' = [src EXCEPT !.nodes = Named(nl)]
  /\ srcChanges' = srcChanges + 1
  /\ stable' = 0
  /\ UNCHANGED <<now, collectorVars, collectVars, appVars, cyc, prevOk, storeBefore, appBefore>>

\* ------------------------------------------------------------ Collect
\* fetchMetrics calls Collect: a fresh ClusterMetrics with the current time.
BeginCollect ==
  /\ now <= MaxCycles
  /\ metrics' = NewMetrics(now)
  /\ now' = now + 1
  /\ cpc' = "fetchNodes"
  /\ nodes' = <<>>
  /\ metricsMap' = NoPodMetrics
  /\ ret' = Nil
  /\ cyc' = NoReads
  /\ prevOk' = AllOk(cyc)
  /\ storeBefore' = lastMetrics
  /\ appBefore' = appMetrics
  /\ stable' = Min(stable + 1, 2)
  /\ UNCHANGED <<src, srcChanges, collectorVars, appMetrics>>

\* Collect derives its context from App.ctx: a read against a context that
\* is already done fails. Any read may also fail on its own (network error,
\* deadline).
CanRead == ~cancelled

FetchNodesOk ==
  /\ cpc = "fetchNodes"
  /\ CanRead
  /\ nodes' = src.nodes
  /\ cyc' = [cyc EXCEPT !.nodes = "ok"]
  /\ cpc' = "fetchNodeMetrics"
  /\ UNCHANGED <<envVars, collectorVars, metrics, metricsMap, ret, appVars,
                 prevOk, storeBefore, appBefore, stable>>

\* Mutant: the failed cycle's ClusterMetrics is cached all the same.
FetchNodesFailInstalls ==
  /\ cpc = "fetchNodes"
  /\ metrics' = [metrics EXCEPT !.error = ErrNodes]
  /\ lastMetrics' = metrics'
  /\ ret' = [m |-> metrics', err |-> ErrRead]
  /\ cyc' = [cyc EXCEPT !.nodes = "fail"]
  /\ cpc' = "returned"
  /\ UNCHANGED <<envVars, namespaces, mu, nodes, metricsMap, appVars,
                 prevOk, storeBefore, appBefore, stable>>

\* fetchNodes fails: Collect returns its ClusterMetrics and the error.
FetchNodesFail ==
  /\ cpc = "fetchNodes"
  /\ metrics' = [metrics EXCEPT !.error = ErrNodes]
  /\ ret' = [m |-> metrics', err |-> ErrRead]
  /\ cyc' = [cyc EXCEPT !.nodes = "fail"]
  /\ cpc' = "returned"
  /\ UNCHANGED <<envVars, collectorVars, nodes, metricsMap, appVars,
                 prevOk, storeBefore, appBefore, stable>>

FetchNodeMetricsOk ==
  /\ cpc = "fetchNodeMetrics"
  /\ CanRead
  /\ metrics' = [metrics EXCEPT !.nodes = mergeNodeData(nodes, NodeMetricsOf(src), lastMetrics)]
  /\ cyc' = [cyc EXCEPT !.nodeMetrics = "ok"]
  /\ cpc' = "fetchPodMetrics"
  /\ UNCHANGED <<envVars, collectorVars, nodes, metricsMap, ret, appVars,
                 prevOk, storeBefore, appBefore, stable>>

\* Mutant: a failed usage read aborts the cycle like a failed node read.
FetchNodeMetricsFailAborts ==
  /\ cpc = "fetchNodeMetrics"
  /\ metrics' = [metrics EXCEPT !.error = ErrNodeMetrics]
  /\ ret' = [m |-> metrics', err |-> ErrRead]
  /\ cyc' = [cyc EXCEPT !.nodeMetrics = "fail"]
  /\ cpc' = "returned"
  /\ UNCHANGED <<envVars, collectorVars, nodes, metricsMap, appVars,
                 prevOk, storeBefore, appBefore, stable>>

\* fetchNodeMetrics fails: the error is recorded, the merge sees a nil map.
FetchNodeMetricsFail ==
  /\ cpc = "fetchNodeMetrics"
  /\ metrics' = [metrics EXCEPT !.error = ErrNodeMetrics,
                                !.nodes = mergeNodeData(nodes, NoNodeMetrics, lastMetrics)]
  /\ cyc' = [cyc EXCEPT !.nodeMetrics = "fail"]
  /\ cpc' = "fetchPodMetrics"
  /\ UNCHANGED <<envVars, collectorVars, nodes, metricsMap, ret, appVars,
                 prevOk, storeBefore, appBefore, stable>>

\* Mutant: fetchPodMetrics takes the lock before it lists the pods.
FetchPodMetricsOkLocksEarly ==
  /\ cpc = "fetchPodMetrics"
  /\ CanRead
  /\ metricsMap' = PodMetricsOf(src)
  /\ mu = "free"
  /\ mu' = "collect"
  /\ cyc' = [cyc EXCEPT !.podMetrics = "ok"]
  /\ cpc' = "listPods"
  /\ UNCHANGED <<envVars, lastMetrics, namespaces, metrics, nodes, ret, appVars,
                 prevOk, storeBefore, appBefore, stable>>

\* fetchPodMetrics, first read: the pod usage samples.
FetchPodMetricsOk ==
  /\ cpc = "fetchPodMetrics"
  /\ CanRead
  /\ metricsMap' = PodMetricsOf(src)
  /\ cyc' = [cyc EXCEPT !.podMetrics = "ok"]
  /\ cpc' = "listPods"
  /\ UNCHANGED <<envVars, collectorVars, metrics, nodes, ret, appVars,
                 prevOk, storeBefore, appBefore, stable>>

FetchPodMetricsFail ==
  /\ cpc = "fetchPodMetrics"
  /\ metrics' = AfterPodFetch(metrics, <<>>, ErrRead)
  /\ cyc' = [cyc EXCEPT !.podMetrics = "fail"]
  /\ cpc' = "install"
  /\ UNCHANGED <<envVars, collectorVars, nodes, metricsMap, ret, appVars,
                 prevOk, storeBefore, appBefore, stable>>

\* fetchPodMetrics, second read: the pod list; the namespace cache is
\* replaced under the lock before fetchPodMetrics returns.
ListPodsOk ==
  /\ cpc = "listPods"
  /\ CanRead
  /\ metrics' = AfterPodFetch(metrics, BuildPods(src.pods, metricsMap), NoErr)
  /\ mu = "free"
  /\ namespaces' = NamespacesOf(src.pods)
  /\ mu' = "free"
  /\ cyc' = [cyc EXCEPT !.podList = "ok"]
  /\ cpc' = "install"
  /\ UNCHANGED <<envVars, lastMetrics, nodes, metricsMap, ret, appVars,
                 prevOk, storeBefore, appBefore, stable>>

\* Mutant: a failed pod list aborts the cycle.
ListPodsFailAborts ==
  /\ cpc = "listPods"
  /\ metrics' = [metrics EXCEPT !.error = ErrPodMetrics]
  /\ ret' = [m |-> metrics', err |-> ErrRead]
  /\ cyc' = [cyc EXCEPT !.podList = "fail"]
  /\ cpc' = "returned"
  /\ UNCHANGED <<envVars, collectorVars, nodes, metricsMap, appVars,
                 prevOk, storeBefore, appBefore, stable>>

\* Mutant: a failed pod list empties the namespace cache.
ListPodsFailClearsNamespaces ==
  /\ cpc = "listPods"
  /\ metrics' = AfterPodFetch(metrics, <<>>, ErrRead)
  /\ namespaces' = <<>>
  /\ cyc' = [cyc EXCEPT !.podList = "fail"]
  /\ cpc' = "install"
  /\ UNCHANGED <<envVars, lastMetrics, mu, nodes, metricsMap, ret, appVars,
                 prevOk, storeBefore, appBefore, stable>>

\* The pod list fails: fetchPodMetrics returns nil and the error.
ListPodsFail ==
  /\ cpc = "listPods"
  /\ metrics' = AfterPodFetch(metrics, <<>>, ErrRead)
  /\ cyc' = [cyc EXCEPT !.podList = "fail"]
  /\ cpc' = "install"
  /\ UNCHANGED <<envVars, collectorVars, nodes, metricsMap, ret, appVars,
                 prevOk, storeBefore, appBefore, stable>>

\* Mutant: a snapshot, once cached, is never replaced.
InstallKeepsOlder ==
  /\ cpc = "install"
  /\ metrics' = calculateAggregates(metrics)
  /\ mu = "free"
  /\ lastMetrics' = IF lastMetrics = Nil THEN metrics' ELSE lastMetrics
  /\ mu' = "free"
  /\ ret' = [m |-> metrics', err |-> NoErr]
  /\ cpc' = "returned"
  /\ UNCHANGED <<envVars, namespaces, nodes, metricsMap, appVars, histVars>>

\* Mutant: the cache takes the ClusterMetrics as it is before the totals
\* are computed.
InstallBeforeAggregates ==
  /\ cpc = "install"
  /\ metrics' = calculateAggregates(metrics)
  /\ mu = "free"
  /\ lastMetrics' = metrics
  /\ mu' = "free"
  /\ ret' = [m |-> metrics', err |-> NoErr]
  /\ cpc' = "returned"
  /\ UNCHANGED <<envVars, namespaces, nodes, metricsMap, appVars, histVars>>

\* calculateAggregates, then the cache update under the lock, then return.
Install ==
  /\ cpc = "install"
  /\ metrics' = calculateAggregates(metrics)
  /\ mu = "free"
  /\ lastMetrics' = metrics'
  /\ mu' = "free"
  /\ ret' = [m |-> metrics', err |-> NoErr]
  /\ cpc' = "returned"
  /\ UNCHANGED <<envVars, namespaces, nodes, metricsMap, appVars, histVars>>

\* ------------------------------------------------------------- App
\* Mutant: fetchMetrics returns early on any error.
FetchMetricsStoreSkipsOnError ==
  /\ cpc = "returned"
  /\ appMetrics' = IF ret.err # NoErr \/ ret.m = Nil THEN appMetrics ELSE ret.m
  /\ cpc' = "idle"
  /\ lpc' = "select"
  /\ metrics' = Nil
  /\ nodes' = <<>>
  /\ metricsMap' = NoPodMetrics
  /\ UNCHANGED <<envVars, collectorVars, ret, refreshNow, tickPending, cancelled, histVars>>

\* fetchMetrics after Collect has returned (Collect's locals are gone).
FetchMetricsStore ==
  /\ cpc = "returned"
  /\ appMetrics' = IF ret.err # NoErr /\ ret.m = Nil THEN appMetrics ELSE ret.m
  /\ cpc' = "idle"
  /\ lpc' = "select"
  /\ metrics' = Nil
  /\ nodes' = <<>>
  /\ metricsMap' = NoPodMetrics
  /\ UNCHANGED <<envVars, collectorVars, ret, refreshNow, tickPending, cancelled, histVars>>

\* Mutant: metricsLoop goes to its select without the initial fetch.
LoopStartWaits ==
  /\ lpc = "start"
  /\ lpc' = "select"
  /\ UNCHANGED <<envVars, collectorVars, collectVars, appMetrics, refreshNow,
                 tickPending, cancelled, histVars>>

\* metricsLoop: the initial fetch.
LoopInitialFetch ==
  /\ lpc = "start"
  /\ lpc' = "fetching"
  /\ BeginCollect
  /\ UNCHANGED <<refreshNow, tickPending, cancelled>>

\* Mutant: the select has no ctx.Done case to take.
LoopDoneIgnored ==
  /\ lpc = "select"
  /\ cancelled
  /\ UNCHANGED <<envVars, collectorVars, collectVars, appVars, histVars>>

\* metricsLoop's select: each ready case may be chosen. On ctx.Done the loop
\* returns and the deferred ticker.Stop() ends the ticks.
LoopDone ==
  /\ lpc = "select"
  /\ cancelled
  /\ lpc' = "done"
  /\ tickPending' = 0
  /\ UNCHANGED <<envVars, collectorVars, collectVars, appMetrics, refreshNow, cancelled, histVars>>

\* Mutant: the request is received and dropped, fetchMetrics is not called.
LoopRefreshDrops ==
  /\ lpc = "select"
  /\ refreshNow > 0
  /\ refreshNow' = refreshNow - 1
  /\ UNCHANGED <<envVars, collectorVars, collectVars, appMetrics, lpc, tickPending,
                 cancelled, histVars>>

\* metricsLoop's select takes the refreshNow case.
LoopRefresh ==
  /\ lpc = "select"
  /\ refreshNow > 0
  /\ refreshNow' = refreshNow - 1
  /\ lpc' = "fetching"
  /\ BeginCollect
  /\ UNCHANGED <<tickPending, cancelled>>

\* Mutant: every tick starts fetchMetrics in a goroutine of its own.
LoopTickOverlaps ==
  /\ lpc \in {"select", "fetching"}
  /\ tickPending > 0
  /\ tickPending' = tickPending - 1
  /\ lpc' = "fetching"
  /\ BeginCollect
  /\ UNCHANGED <<refreshNow, cancelled>>

LoopTick ==
  /\ lpc = "select"
  /\ tickPending > 0
  /\ tickPending' = tickPending - 1
  /\ lpc' = "fetching"
  /\ BeginCollect
  /\ UNCHANGED <<refreshNow, cancelled>>

\* Mutant: the ticker's channel buffers two ticks.
TickQueues ==
  /\ lpc # "done"
  /\ tickPending < 2
  /\ tickPending' = tickPending + 1
  /\ UNCHANGED <<envVars, collectorVars, collectVars, appMetrics, lpc, refreshNow, cancelled, histVars>>

\* The runtime delivers a tick; a tick is dropped when one is still buffered.
Tick ==
  /\ lpc # "done"
  /\ tickPending = 0
  /\ tickPending' = 1
  /\ UNCHANGED <<envVars, collectorVars, collectVars, appMetrics, lpc, refreshNow, cancelled, histVars>>

\* Mutant: refreshNow is made with room for two requests.
KeyRefreshQueues ==
  /\ ~cancelled
  /\ refreshNow' = IF refreshNow < 2 THEN refreshNow + 1 ELSE refreshNow
  /\ UNCHANGED <<envVars, collectorVars, collectVars, appMetrics, lpc, tickPending, cancelled, histVars>>

\* Key 'r': a non-blocking send on refreshNow (no key arrives once 'q' has
\* stopped the UI).
KeyRefresh ==
  /\ ~cancelled
  /\ refreshNow' = IF refreshNow < 1 THEN refreshNow + 1 ELSE refreshNow
  /\ UNCHANGED <<envVars, collectorVars, collectVars, appMetrics, lpc, tickPending, cancelled, histVars>>

\* Key 'q': cancel the context and stop the UI.
KeyQuit ==
  /\ ~cancelled
  /\ cancelled' = TRUE
  /\ UNCHANGED <<envVars, collectorVars, collectVars, appMetrics, lpc, refreshNow, tickPending, histVars>>

\* The Collector under the polling loop; the redraw task and the observers of
\* AppNext stand still.
Next ==
  \/ SourceChange /\ UNCHANGED <<uiVars, obsVars, mainVars, funcVars, keyVars>>
  \/ LoopInitialFetch /\ UNCHANGED <<uiVars, obsVars, mainVars, funcVars, keyVars>>
  \/ LoopRefresh /\ UNCHANGED <<uiVars, obsVars, mainVars, funcVars, keyVars>>
  \/ LoopTick /\ UNCHANGED <<uiVars, obsVars, mainVars, funcVars, keyVars>>
  \/ LoopDone /\ UNCHANGED <<uiVars, obsVars, mainVars, funcVars, keyVars>>
  \/ FetchNodesOk /\ UNCHANGED <<uiVars, obsVars, mainVars, funcVars, keyVars>>
  \/ FetchNodesFail /\ UNCHANGED <<uiVars, obsVars, mainVars, funcVars, keyVars>>
  \/ FetchNodeMetricsOk /\ UNCHANGED <<uiVars, obsVars, mainVars, funcVars, keyVars>>
  \/ FetchNodeMetricsFail /\ UNCHANGED <<uiVars, obsVars, mainVars, funcVars, keyVars>>
  \/ FetchPodMetricsOk /\ UNCHANGED <<uiVars, obsVars, mainVars, funcVars, keyVars>>
  \/ FetchPodMetricsFail /\ UNCHANGED <<uiVars, obsVars, mainVars, funcVars, keyVars>>
  \/ ListPodsOk /\ UNCHANGED <<uiVars, obsVars, mainVars, funcVars, keyVars>>
  \/ ListPodsFail /\ UNCHANGED <<uiVars, obsVars, mainVars, funcVars, keyVars>>
  \/ Install /\ UNCHANGED <<uiVars, obsVars, mainVars, funcVars, keyVars>>
  \/ FetchMetricsStore /\ UNCHANGED <<uiVars, obsVars, mainVars, funcVars, keyVars>>
  \/ Tick /\ UNCHANGED <<uiVars, obsVars, mainVars, funcVars, keyVars>>
  \/ KeyRefresh /\ UNCHANGED <<uiVars, obsVars, mainVars, funcVars, keyVars>>
  \/ KeyQuit /\ UNCHANGED <<uiVars, obsVars, mainVars, funcVars, keyVars>>

Spec == Init /\ [][Next]_vars

\* ------------------------------------------------------------ readers
\* c.mu.RLock() returns at once unless the lock is held for writing.
CanRLock == mu = "free"

\* GetLastMetrics and GetNamespaces: what a reader is handed.
GetLastMetrics == lastMetrics
GetNamespaces == namespaces

\* ------------------------------------------------------ the redraw task
\* The AppState a redraw runs with: DefaultAppState, and two states the sort
\* and filter keys lead to.
AppStates ==
  { [nodeSortField |-> "NodeCPU", nodeSortAsc |-> FALSE,
     podSortField |-> "PodCPU", podSortAsc |-> FALSE,
     namespaceFilter |-> "", showSystem |-> FALSE],
    [nodeSortField |-> "NodeName", nodeSortAsc |-> TRUE,
     podSortField |-> "PodName", podSortAsc |-> TRUE,
     namespaceFilter |-> "", showSystem |-> TRUE],
    [nodeSortField |-> "NodePods", nodeSortAsc |-> FALSE,
     podSortField |-> "PodNamespace", podSortAsc |-> TRUE,
     namespaceFilter |-> "default", showSystem |-> FALSE] }

\* The rows updateNodesTable and updatePodsTable put on the screen for m:
\* the nodes sorted on a copy, the pods filtered, sorted and limited.
Render(m, state, topPods) ==
  IF m = Nil THEN [timestamp |-> 0, nodes |-> <<>>, pods |-> <<>>]
  ELSE LET rows == SortNodes(m.nodes, state.nodeSortField, state.nodeSortAsc)
           kept == FilterPods(m.pods, state.namespaceFilter, state.showSystem)
           pods == LimitPods(SortPods(kept, state.podSortField, state.podSortAsc), topPods)
       IN [timestamp |-> m.timestamp,
           nodes |-> [i \in DOMAIN rows |-> rows[i].name],
           pods |-> [i \in DOMAIN pods |-> <<pods[i].namespace, pods[i].name>>]]

\* Mutant: the node table sorts m.Nodes itself instead of a copy; the Store
\* holds the same ClusterMetrics when the last Collect installed it.
UpdateUISortsInPlace ==
  /\ ~cancelled
  /\ \E state \in AppStates :
       /\ view' = Render(appMetrics, state, cfg.topPods)
       /\ appMetrics' =
            IF appMetrics = Nil THEN Nil
            ELSE [appMetrics EXCEPT !.nodes =
                    SortNodes(appMetrics.nodes, state.nodeSortField, state.nodeSortAsc)]
  /\ lastMetrics' = IF lastMetrics = appMetrics THEN appMetrics' ELSE lastMetrics
  /\ UNCHANGED <<envVars, namespaces, mu, collectVars, lpc, refreshNow, tickPending,
                 cancelled, histVars, rpc, obsVars, mainVars, funcVars, keyVars>>

\* updateUI, run by the UI event loop for every redraw that fetchMetrics or
\* refreshLoop queued; Stop ends the event loop.
UpdateUI ==
  /\ ~cancelled
  /\ \E state \in AppStates : view' = Render(appMetrics, state, cfg.topPods)
  /\ UNCHANGED <<envVars, collectorVars, collectVars, appVars, histVars, rpc, obsVars,
                 mainVars, funcVars, keyVars>>

\* refreshLoop's select takes the ctx.Done case.
RefreshLoopDone ==
  /\ rpc = "run"
  /\ cancelled
  /\ rpc' = "done"
  /\ UNCHANGED <<envVars, collectorVars, collectVars, appVars, histVars, view, obsVars,
                 mainVars, funcVars, keyVars>>

\* ------------------------------------------------- the interactive App
\* A step of the Collector or of the polling loop that the redraw task and
\* the observers do not take part in.
Quiet(A) == A /\ UNCHANGED <<uiVars, obsVars, mainVars, funcVars, keyVars>>

AppLoopInitialFetch ==
  LoopInitialFetch /\ trigger' = "startup" /\ UNCHANGED <<uiVars, presses, quitAt, mainVars, funcVars, keyVars>>

AppLoopRefresh ==
  LoopRefresh /\ trigger' = "refresh" /\ presses' = 0 /\ UNCHANGED <<uiVars, quitAt, mainVars, funcVars, keyVars>>

AppLoopTick ==
  LoopTick /\ trigger' = "tick" /\ UNCHANGED <<uiVars, presses, quitAt, mainVars, funcVars, keyVars>>

AppKeyRefresh ==
  KeyRefresh /\ presses' = Min(presses + 1, MaxPresses) /\ UNCHANGED <<uiVars, quitAt, trigger, mainVars, funcVars, keyVars>>

AppKeyQuit ==
  /\ KeyQuit
  /\ quitAt' = IF cpc \in {"idle", "returned"} THEN "waiting" ELSE "collecting"
  /\ UNCHANGED <<uiVars, presses, trigger, mainVars, funcVars, keyVars>>

\* A cluster of two nodes and three workloads whose stored order is not the
\* order any of AppStates sorts them into.
AppSource ==
  [nodes |-> Named(<< CHOOSE k \in NodeKinds : k.cpuCap = 4000,
                      CHOOSE k \in NodeKinds : k.ready = "False" >>),
   pods |-> << CHOOSE p \in PodKinds : p.name = "db",
               CHOOSE p \in PodKinds : p.namespace = "kube-system",
               CHOOSE p \in PodKinds : p.namespace = "default" /\ p.name = "web" >>]

AppInit == src = AppSource /\ Start

\* The interactive App against a cluster that stays as it is.
AppNext ==
  \/ AppLoopInitialFetch
  \/ AppLoopRefresh
  \/ AppLoopTick
  \/ Quiet(LoopDone)
  \/ Quiet(FetchNodesOk)
  \/ Quiet(FetchNodesFail)
  \/ Quiet(FetchNodeMetricsOk)
  \/ Quiet(FetchNodeMetricsFail)
  \/ Quiet(FetchPodMetricsOk)
  \/ Quiet(FetchPodMetricsFail)
  \/ Quiet(ListPodsOk)
  \/ Quiet(ListPodsFail)
  \/ Quiet(Install)
  \/ Quiet(FetchMetricsStore)
  \/ Quiet(Tick)
  \/ AppKeyRefresh
  \/ AppKeyQuit
  \/ UpdateUI
  \/ RefreshLoopDone

AppSpec == AppInit /\ [][AppNext]_vars

\* Scheduling: every goroutine keeps running, a network read returns or hits
\* its deadline, and a select whose ctx.Done case is ready again and again
\* takes it in the end (the runtime picks among the ready cases at random).
AppFairSpec ==
  /\ AppSpec
  /\ WF_vars(AppLoopInitialFetch)
  /\ WF_vars(Quiet(FetchNodesOk) \/ Quiet(FetchNodesFail))
  /\ WF_vars(Quiet(FetchNodeMetricsOk) \/ Quiet(FetchNodeMetricsFail))
  /\ WF_vars(Quiet(FetchPodMetricsOk) \/ Quiet(FetchPodMetricsFail))
  /\ WF_vars(Quiet(ListPodsOk) \/ Quiet(ListPodsFail))
  /\ WF_vars(Quiet(Install))
  /\ WF_vars(Quiet(FetchMetricsStore))
  /\ SF_vars(Quiet(LoopDone))
  /\ SF_vars(RefreshLoopDone)

\* AppFairSpec, and a select with a ready case does not wait: metricsLoop
\* takes one of the cases that are ready.
AppLiveSpec ==
  /\ AppFairSpec
  /\ WF_vars(AppLoopRefresh \/ AppLoopTick \/ Quiet(LoopDone))

\* ------------------------------------- sort, filter and limit, applied
MaxRows == 3
MaxLimit == 4

\* Node rows as a snapshot holds them: n1 and n2 tie on CPU percent, n2 and
\* n3 tie on pod count.
NodeRows ==
  { [name |-> "n1", cpu |-> [percent |-> Ratio(1, 4)], memory |-> [percent |-> Ratio(1, 4)],
     status |-> NodeStatusReady, podCount |-> 1],
    [name |-> "n2", cpu |-> [percent |-> Ratio(1, 4)], memory |-> [percent |-> Ratio(1, 2)],
     status |-> NodeStatusNotReady, podCount |-> 0],
    [name |-> "n3", cpu |-> [percent |-> ZeroPct], memory |-> [percent |-> ZeroPct],
     status |-> NodeStatusUnknown, podCount |-> 0] }

\* Pod rows: names repeat across namespaces, two rows have no usage.
PodRows ==
  { [namespace |-> "default", name |-> "web", cpu |-> 150, memory |-> 3, status |-> "Running"],
    [namespace |-> "kube-system", name |-> "web", cpu |-> 0, memory |-> 0, status |-> "Pending"],
    [namespace |-> "default", name |-> "db", cpu |-> 0, memory |-> 1, status |-> "Failed"],
    [namespace |-> "kube-public", name |-> "db", cpu |-> 20, memory |-> 2, status |-> "Running"],
    [namespace |-> "kube-node-lease", name |-> "web", cpu |-> 30, memory |-> 5, status |-> "Succeeded"],
    [namespace |-> "prod", name |-> "db", cpu |-> 40, memory |-> 4, status |-> "Unknown"] }

\* Slices of distinct rows, at most MaxRows long.
RowLists(rows) ==
  { s \in UNION { [1..k -> rows] : k \in 0..Min(MaxRows, Cardinality(rows)) } : IsInjective(s) }

\* The calls under study. A sort is handed the fields of both tables.
Calls ==
  { [op |-> "SortNodes", list |-> l, field |-> f, ascending |-> a] :
      l \in RowLists(NodeRows), f \in NodeSortFields \cup {"PodCPU"}, a \in BOOLEAN }
  \cup
  { [op |-> "SortPods", list |-> l, field |-> f, ascending |-> a] :
      l \in RowLists(PodRows), f \in PodSortFields \cup {"NodePods"}, a \in BOOLEAN }
  \cup
  { [op |-> "FilterPods", list |-> l, namespace |-> ns, showSystem |-> sh] :
      l \in RowLists(PodRows), ns \in {"", "default", "kube-system", "prod"}, sh \in BOOLEAN }
  \cup
  { [op |-> "LimitPods", list |-> l, limit |-> n] :
      l \in RowLists(PodRows), n \in 1..MaxLimit }

FuncInit ==
  /\ src = [nodes |-> <<>>, pods |-> <<>>]
  /\ Constructed
  /\ cfg = RunConfig
  /\ mainPc = "run"
  /\ exitCode = <<>>
  /\ arg \in Calls
  /\ out = <<>>
  /\ appState = DefaultAppState

Frozen == UNCHANGED <<envVars, collectorVars, collectVars, appVars, histVars, uiVars,
                      obsVars, mainVars, arg, keyVars>>

\* The call is made.
SortNodesCall ==
  /\ arg.op = "SortNodes"
  /\ out = <<>>
  /\ out' = <<SortNodes(arg.list, arg.field, arg.ascending)>>
  /\ Frozen

SortPodsCall ==
  /\ arg.op = "SortPods"
  /\ out = <<>>
  /\ out' = <<SortPods(arg.list, arg.field, arg.ascending)>>
  /\ Frozen

\* The result is sorted again on the same field, the other way round.
SortNodesBack ==
  /\ arg.op = "SortNodes"
  /\ Len(out) = 1
  /\ out' = Append(out, SortNodes(out[1], arg.field, ~arg.ascending))
  /\ Frozen

SortPodsBack ==
  /\ arg.op = "SortPods"
  /\ Len(out) = 1
  /\ out' = Append(out, SortPods(out[1], arg.field, ~arg.ascending))
  /\ Frozen

FilterPodsCall ==
  /\ arg.op = "FilterPods"
  /\ out = <<>>
  /\ out' = <<FilterPods(arg.list, arg.namespace, arg.showSystem)>>
  /\ Frozen

LimitPodsCall ==
  /\ arg.op = "LimitPods"
  /\ out = <<>>
  /\ out' = <<LimitPods(arg.list, arg.limit)>>
  /\ Frozen

FuncNext ==
  \/ SortNodesCall
  \/ SortNodesBack
  \/ SortPodsCall
  \/ SortPodsBack
  \/ FilterPodsCall
  \/ LimitPodsCall

FuncSpec == FuncInit /\ [][FuncNext]_vars

\* ---------------------------------------------------------------- main
\* Command lines: values on both sides of every bound Validate checks, with
\* and without --show, --version and --help.
Configs ==
  [refreshInterval : {MinRefreshInterval - 1, MinRefreshInterval,
                      MaxRefreshInterval, MaxRefreshInterval + 1},
   timeout : {999, 1000},
   topPods : {0, 1, 1000, 1001},
   showResource : {"", "resources", "pods", "nodes"},
   showVersion : BOOLEAN,
   showHelp : BOOLEAN]

MainInit ==
  /\ src = AppSource
  /\ Constructed
  /\ cfg \in Configs
  /\ mainPc = "parse"
  /\ exitCode = <<>>
  /\ arg = NoCall
  /\ out = <<>>
  /\ appState = DefaultAppState

\* main has not called os.Exit.
Alive == exitCode = <<>>

\* os.Exit(code): mainPc stays where main stopped.
Exit(code) == exitCode' = <<code>> /\ UNCHANGED <<cfg, mainPc>>

MainFrame == UNCHANGED <<envVars, collectorVars, collectVars, appVars, histVars,
                         uiVars, obsVars, funcVars, keyVars>>

\* main.go:26-31: ParseFlags ends with Validate; an error ends the process.
MainParseFlags ==
  /\ Alive
  /\ mainPc = "parse"
  /\ IF Validate(cfg) # NoErr THEN Exit(1)
     ELSE mainPc' = "flags" /\ UNCHANGED <<cfg, exitCode>>
  /\ MainFrame

\* main.go:33-42: --version and --help.
MainFlags ==
  /\ Alive
  /\ mainPc = "flags"
  /\ IF cfg.showVersion \/ cfg.showHelp THEN Exit(0)
     ELSE mainPc' = "connect" /\ UNCHANGED <<cfg, exitCode>>
  /\ MainFrame

\* main.go:56-83: the client is built (or main gives up), the metrics API
\* check only warns, NewCollector; then --show decides the mode, and in the
\* interactive mode NewApp and App.Run start the two loops.
MainConnect ==
  /\ Alive
  /\ mainPc = "connect"
  /\ \/ Exit(1)
     \/ /\ mainPc' = IF cfg.showResource # "" THEN "export" ELSE "run"
        /\ UNCHANGED <<cfg, exitCode>>
  /\ MainFrame

\* SIGINT or SIGTERM cancels main's context, which the export Collect's
\* context derives from.
Signal ==
  /\ Alive
  /\ mainPc \in {"export", "collecting"}
  /\ ~cancelled
  /\ cancelled' = TRUE
  /\ UNCHANGED <<envVars, collectorVars, collectVars, appMetrics, lpc, refreshNow,
                 tickPending, histVars, uiVars, obsVars, mainVars, funcVars, keyVars>>

\* Mutant: the export branch does not end the process and falls through to
\* NewApp and App.Run.
MainExportReturnFallsThrough ==
  /\ Alive
  /\ mainPc = "collecting"
  /\ cpc = "returned"
  /\ mainPc' = "run"
  /\ cpc' = "idle"
  /\ UNCHANGED <<cfg, exitCode>>
  /\ UNCHANGED <<envVars, collectorVars, metrics, nodes, metricsMap, ret, appVars,
                 histVars, uiVars, obsVars, funcVars, keyVars>>

\* main.go:86-95: the export mode calls Collect itself.
MainExportCollect ==
  /\ Alive
  /\ mainPc = "export"
  /\ mainPc' = "collecting"
  /\ BeginCollect
  /\ UNCHANGED <<lpc, refreshNow, tickPending, cancelled, uiVars, obsVars, cfg,
                 exitCode, funcVars, keyVars>>

\* main.go:91-95: Collect has returned; an error ends the process.
MainExportReturn ==
  /\ Alive
  /\ mainPc = "collecting"
  /\ cpc = "returned"
  /\ IF ret.err # NoErr THEN Exit(1)
     ELSE mainPc' = "encode" /\ UNCHANGED <<cfg, exitCode>>
  /\ MainFrame

\* main.go:97-147: the document is chosen and written to standard output;
\* the write succeeds or fails.
MainEncode ==
  /\ Alive
  /\ mainPc = "encode"
  /\ \E written \in BOOLEAN : Exit(IF written THEN 0 ELSE 1)
  /\ MainFrame

\* main.go:155-159: App.Run returns nil once the UI has been stopped, or an
\* error when the terminal fails it.
MainRunReturns ==
  /\ Alive
  /\ mainPc = "run"
  /\ \/ cancelled /\ Exit(0)
     \/ Exit(1)
  /\ MainFrame

\* A step of the Collector, which runs while the process does.
Live(A) == Alive /\ A

\* A step of the interactive App, which exists once main has reached App.Run.
InApp(A) == Alive /\ mainPc = "run" /\ A

MainNext ==
  \/ MainParseFlags
  \/ MainFlags
  \/ MainConnect
  \/ Signal
  \/ MainExportCollect
  \/ MainExportReturn
  \/ MainEncode
  \/ MainRunReturns
  \/ Live(Quiet(FetchNodesOk))
  \/ Live(Quiet(FetchNodesFail))
  \/ Live(Quiet(FetchNodeMetricsOk))
  \/ Live(Quiet(FetchNodeMetricsFail))
  \/ Live(Quiet(FetchPodMetricsOk))
  \/ Live(Quiet(FetchPodMetricsFail))
  \/ Live(Quiet(ListPodsOk))
  \/ Live(Quiet(ListPodsFail))
  \/ Live(Quiet(Install))
  \/ InApp(AppLoopInitialFetch)
  \/ InApp(AppLoopRefresh)
  \/ InApp(AppLoopTick)
  \/ InApp(Quiet(LoopDone))
  \/ InApp(Quiet(FetchMetricsStore))
  \/ InApp(Quiet(Tick))
  \/ InApp(AppKeyRefresh)
  \/ InApp(AppKeyQuit)
  \/ InApp(UpdateUI)
  \/ InApp(RefreshLoopDone)

MainSpec == MainInit /\ [][MainNext]_vars

\* ------------------------------------------------ sort and filter keys
MaxNamespaces == 3

\* Mutant: the cycle goes from memory straight to pods.
cycleNodeSortSkipsStatus(st) ==
  CASE st.nodeSortField = "NodeName" -> [st EXCEPT !.nodeSortField = "NodeCPU"]
    [] st.nodeSortField = "NodeCPU" -> [st EXCEPT !.nodeSortField = "NodeMemory"]
    [] st.nodeSortField = "NodeMemory" -> [st EXCEPT !.nodeSortField = "NodePods"]
    [] OTHER -> [st EXCEPT !.nodeSortField = "NodeName", !.nodeSortAsc = ~@]

\* cycleNodeSort: the next field; the default branch wraps and flips.
cycleNodeSort(st) ==
  CASE st.nodeSortField = "NodeName" -> [st EXCEPT !.nodeSortField = "NodeCPU"]
    [] st.nodeSortField = "NodeCPU" -> [st EXCEPT !.nodeSortField = "NodeMemory"]
    [] st.nodeSortField = "NodeMemory" -> [st EXCEPT !.nodeSortField = "NodeStatus"]
    [] st.nodeSortField = "NodeStatus" -> [st EXCEPT !.nodeSortField = "NodePods"]
    [] OTHER -> [st EXCEPT !.nodeSortField = "NodeName", !.nodeSortAsc = ~@]

\* cyclePodSort: the next field; memory wraps and flips, the default branch
\* goes to CPU.
cyclePodSort(st) ==
  CASE st.podSortField = "PodNamespace" -> [st EXCEPT !.podSortField = "PodName"]
    [] st.podSortField = "PodName" -> [st EXCEPT !.podSortField = "PodCPU"]
    [] st.podSortField = "PodCPU" -> [st EXCEPT !.podSortField = "PodMemory"]
    [] st.podSortField = "PodMemory" ->
         [st EXCEPT !.podSortField = "PodNamespace", !.podSortAsc = ~@]
    [] OTHER -> [st EXCEPT !.podSortField = "PodCPU"]

\* The first index of the filter in the list, 0 when it is not there.
CurrentIdx(st, list) ==
  LET hits == { i \in DOMAIN list : list[i] = st.namespaceFilter }
  IN IF hits = {} THEN 0 ELSE CHOOSE i \in hits : \A j \in hits : i <= j

\* Mutant: after the last namespace the filter goes back to the first one.
cycleNamespaceFilterSkipsAll(st, list) ==
  IF Len(list) = 0 THEN st
  ELSE IF CurrentIdx(st, list) = 0 \/ CurrentIdx(st, list) = Len(list)
       THEN [st EXCEPT !.namespaceFilter = list[1]]
       ELSE [st EXCEPT !.namespaceFilter = list[CurrentIdx(st, list) + 1]]

\* cycleNamespaceFilter on the list GetNamespaces returned.
cycleNamespaceFilter(st, list) ==
  IF Len(list) = 0 THEN st
  ELSE IF CurrentIdx(st, list) = 0 \/ CurrentIdx(st, list) = Len(list)
       THEN [st EXCEPT !.namespaceFilter = IF st.namespaceFilter = "" THEN list[1] ELSE ""]
       ELSE [st EXCEPT !.namespaceFilter = list[CurrentIdx(st, list) + 1]]

\* The lists the namespace cache can hold: sorted, without duplicates.
KnownNamespaces == {"default", "kube-public", "kube-system", "prod"}

NamespaceLists ==
  { l \in UNION { [1..k -> KnownNamespaces] :
                    k \in 0..Min(MaxNamespaces, Cardinality(KnownNamespaces)) } :
      \A i \in 1..(Len(l) - 1) : StrLess(l[i], l[i + 1]) }

\* The App some time into its run, the Collector having cached a list of
\* namespaces that stays as it is.
KeyInit ==
  /\ src = AppSource
  /\ Wired
  /\ namespaces \in NamespaceLists
  /\ cfg = RunConfig
  /\ mainPc = "run"
  /\ exitCode = <<>>
  /\ arg = NoCall
  /\ out = <<>>
  /\ appState = DefaultAppState

KeyFrame == UNCHANGED <<envVars, collectorVars, collectVars, appVars, histVars, uiVars,
                        obsVars, mainVars, funcVars>>

\* Key 's'.
KeyNodeSort ==
  /\ ~cancelled
  /\ appState' = cycleNodeSort(appState)
  /\ KeyFrame

\* Key 'p'.
KeyPodSort ==
  /\ ~cancelled
  /\ appState' = cyclePodSort(appState)
  /\ KeyFrame

\* Keys 'f' and 'n'.
KeyNamespaceFilter ==
  /\ ~cancelled
  /\ CanRLock
  /\ appState' = cycleNamespaceFilter(appState, GetNamespaces)
  /\ KeyFrame

\* Key 'a'.
KeyShowSystem ==
  /\ ~cancelled
  /\ appState' = [appState EXCEPT !.showSystem = ~@]
  /\ KeyFrame

KeyNext ==
  \/ KeyNodeSort
  \/ KeyPodSort
  \/ KeyNamespaceFilter
  \/ KeyShowSystem

KeySpec == KeyInit /\ [][KeyNext]_vars

\* The user keeps pressing the pod-sort key.
KeyFairSpec == KeySpec /\ WF_vars(KeyPodSort)

\* ------------------------------------------------------------ claims
NetworkWait == {"fetchNodes", "fetchNodeMetrics", "fetchPodMetrics", "listPods"}
\* The snapshots a state holds: the Store, App.metrics, the last returned
\* ClusterMetrics and the one under construction.
Snapshots == { m \in {lastMetrics, appMetrics, metrics} \cup
                     (IF ret = Nil THEN {} ELSE {ret.m}) : m # Nil }

Returned == cpc = "returned"
Finished == cpc \in {"returned", "idle"}
PodFetchFailed == cyc.podMetrics = "fail" \/ cyc.podList = "fail"
ZeroTotals(m) ==
  /\ m.totalCPUCapacity = 0 /\ m.totalCPUUsed = 0 /\ m.totalCPUCores = 0
  /\ m.totalMemoryCapacity = 0 /\ m.totalMemoryUsed = 0
  /\ m.totalDiskCapacity = 0 /\ m.totalDiskUsed = 0
  /\ m.totalGPUs = 0 /\ m.totalPods = 0 /\ m.totalNodes = 0 /\ m.readyNodes = 0

\* C1: when the node-descriptor read fails, Collect returns a non-nil error
\* and the Store holds exactly what it held when the cycle started.
C1_NodeReadFailureLeavesStore ==
  cyc.nodes = "fail" => /\ ret.err # NoErr
                        /\ lastMetrics = storeBefore

C1_Witness ==
  /\ Returned
  /\ cyc.nodes = "fail"
  /\ storeBefore # Nil
  /\ Len(storeBefore.nodes) > 0

C3_NodeUsageFailureZeroesUsage ==
  (Returned /\ cyc.nodeMetrics = "fail") =>
     /\ ret.err = NoErr
     /\ ret.m.error # NoErr
     /\ Len(ret.m.nodes) = Len(nodes)
     /\ \A i \in DOMAIN nodes :
          /\ ret.m.nodes[i].name = nodes[i].name
          /\ ret.m.nodes[i].cpu.current = 0
          /\ ret.m.nodes[i].memory.current = 0
          /\ ret.m.nodes[i].cpu.percent = ZeroPct
          /\ ret.m.nodes[i].memory.percent = ZeroPct
          /\ ret.m.nodes[i].disk.percent = ZeroPct

C3_Witness ==
  /\ Returned
  /\ cyc.nodeMetrics = "fail"
  /\ Len(nodes) = MaxNodes
  /\ \E i \in DOMAIN nodes : nodes[i].kind.sample # Nil /\ nodes[i].kind.cpuCap > 0

\* C4 (as claimed): when the pod usage read fails and the cluster has not
\* changed during the cycle, the returned snapshot lists every pod the pod
\* list holds, each with cpu = 0 and memory = 0, and has its error set.
C4_PodUsageFailureKeepsWorkloads ==
  (Returned /\ cyc.podMetrics = "fail" /\ stable >= 1) =>
     /\ ret.m.error # NoErr
     /\ Len(ret.m.pods) = Len(src.pods)
     /\ \A i \in DOMAIN src.pods :
          /\ ret.m.pods[i].namespace = src.pods[i].namespace
          /\ ret.m.pods[i].name = src.pods[i].name
          /\ ret.m.pods[i].cpu = 0
          /\ ret.m.pods[i].memory = 0

\* C5: the error field of the returned snapshot is the first non-fatal
\* failure of the cycle: the node usage failure if that read failed, else the
\* pod fetch failure if that failed, else nil.
C5_FirstErrorWins ==
  Returned /\ cyc.nodes = "ok" =>
     ret.m.error = IF cyc.nodeMetrics = "fail" THEN ErrNodeMetrics
                   ELSE IF PodFetchFailed THEN ErrPodMetrics
                   ELSE NoErr

C5_Witness ==
  /\ Returned
  /\ cyc.nodeMetrics = "fail"
  /\ PodFetchFailed
  /\ ret.m.error = ErrNodeMetrics

\* C6 (as claimed): after fetchMetrics for a cycle whose node read failed,
\* App.metrics is what it was before fetchMetrics.
C6_FailedCycleLeavesAppMetrics ==
  (cpc = "idle" /\ cyc.nodes = "fail") => appMetrics = appBefore

\* C6 (amended): a cycle whose node read failed leaves the Collector's Store
\* unchanged, but fetchMetrics installs the ClusterMetrics that Collect
\* returned with the error as App.metrics: no nodes, no workloads, zero
\* totals and the error field set.
C6_FailedCycleShowsErrorSnapshot ==
  (cpc = "idle" /\ cyc.nodes = "fail") =>
     /\ lastMetrics = storeBefore
     /\ appMetrics = ret.m
     /\ appMetrics.error = ErrNodes
     /\ appMetrics.nodes = <<>>
     /\ appMetrics.pods = <<>>
     /\ ZeroTotals(appMetrics)

C6_Witness ==
  /\ cpc = "idle"
  /\ cyc.nodes = "fail"
  /\ appBefore # Nil
  /\ Len(appBefore.nodes) > 0
  /\ appMetrics # appBefore

\* C7: in every snapshot installed in the Store each resource total is the
\* sum over the nodes of that snapshot.
C7_ResourceTotalsAreNodeSums ==
  lastMetrics # Nil =>
     LET ns == lastMetrics.nodes IN
     /\ lastMetrics.totalCPUUsed = SumSeq([i \in DOMAIN ns |-> ns[i].cpu.current])
     /\ lastMetrics.totalCPUCapacity = SumSeq([i \in DOMAIN ns |-> ns[i].cpu.capacity])
     /\ lastMetrics.totalMemoryUsed = SumSeq([i \in DOMAIN ns |-> ns[i].memory.current])
     /\ lastMetrics.totalMemoryCapacity = SumSeq([i \in DOMAIN ns |-> ns[i].memory.capacity])
     /\ lastMetrics.totalDiskUsed = SumSeq([i \in DOMAIN ns |-> ns[i].disk.current])
     /\ lastMetrics.totalDiskCapacity = SumSeq([i \in DOMAIN ns |-> ns[i].disk.capacity])

C7_Witness ==
  /\ lastMetrics # Nil
  /\ storeBefore # Nil
  /\ lastMetrics # storeBefore
  /\ Len(lastMetrics.nodes) = MaxNodes
  /\ lastMetrics.totalCPUUsed > 0
  /\ storeBefore.totalCPUUsed > 0
  /\ lastMetrics.totalDiskCapacity > 0

\* C8: in every snapshot installed in the Store the count totals describe
\* that snapshot: nodes, workloads, Ready nodes and accelerators.
C8_CountTotalsDescribeSnapshot ==
  lastMetrics # Nil =>
     LET ns == lastMetrics.nodes IN
     /\ lastMetrics.totalNodes = Len(ns)
     /\ lastMetrics.totalPods = Len(lastMetrics.pods)
     /\ lastMetrics.readyNodes =
          Cardinality({ i \in DOMAIN ns : ns[i].status = NodeStatusReady })
     /\ lastMetrics.readyNodes <= lastMetrics.totalNodes
     /\ lastMetrics.totalGPUs =
          SumSeq([i \in DOMAIN ns |-> IF ns[i].gpu = Nil THEN 0 ELSE ns[i].gpu.count])

C8_Witness ==
  /\ lastMetrics # Nil
  /\ storeBefore # Nil
  /\ lastMetrics # storeBefore
  /\ Len(lastMetrics.pods) > 0
  /\ lastMetrics.totalGPUs > 0
  /\ \E i \in DOMAIN lastMetrics.nodes : lastMetrics.nodes[i].status = NodeStatusUnknown
  /\ \E i \in DOMAIN lastMetrics.nodes : lastMetrics.nodes[i].status = NodeStatusReady

\* Equality of two snapshots in everything but the timestamp.
SameButTimestamp(a, b) == [a EXCEPT !.timestamp = 0] = [b EXCEPT !.timestamp = 0]

\* C9 (as claimed): two consecutive Collects whose reads all succeed, run
\* against a cluster that did not change from before the first to the end of
\* the second, return snapshots that differ in the timestamp only.
C9_CollectIdempotent ==
  (Returned /\ stable = 2 /\ prevOk /\ AllOk(cyc)) =>
     SameButTimestamp(ret.m, storeBefore)

\* C10: for every node of every snapshot and each of cpu, memory and disk,
\* percent = current / capacity * 100 when capacity > 0 (not clamped), and
\* percent = 0 when capacity = 0; capacity 4000 with usage 1000 gives 25.
PercentOk(u) ==
  /\ u.capacity > 0 => /\ u.percent.den > 0
                       /\ u.percent.num * u.capacity = u.current * 100 * u.percent.den
  /\ u.capacity = 0 => u.percent = ZeroPct
  /\ (u.capacity = 4000 /\ u.current = 1000) => u.percent = [num |-> 25, den |-> 1]

C10_PercentIsSafeRatio ==
  \A m \in Snapshots : \A i \in DOMAIN m.nodes :
     /\ PercentOk(m.nodes[i].cpu)
     /\ PercentOk(m.nodes[i].memory)
     /\ PercentOk(m.nodes[i].disk)

C10_Witness ==
  /\ lastMetrics # Nil
  /\ \E i \in DOMAIN lastMetrics.nodes :
        /\ lastMetrics.nodes[i].cpu.capacity = 0
        /\ lastMetrics.nodes[i].cpu.current > 0
  /\ \E i \in DOMAIN lastMetrics.nodes :
        /\ lastMetrics.nodes[i].cpu.capacity > 0
        /\ lastMetrics.nodes[i].cpu.current > lastMetrics.nodes[i].cpu.capacity
        /\ lastMetrics.nodes[i].cpu.percent.num > 100 * lastMetrics.nodes[i].cpu.percent.den

\* C11: in the interactive loop at most one Collect is in flight: every
\* Collect the scheduler starts (startup, tick or refresh) starts when the
\* one before it has returned and fetchMetrics has finished with it.
C11_OneCollectInFlight ==
  [][now' # now => (cpc = "idle" /\ lpc \in {"start", "select"})]_vars

C11_Witness ==
  /\ cpc \in NetworkWait
  /\ trigger = "startup"
  /\ tickPending = 1
  /\ refreshNow = 1
  /\ presses = MaxPresses

\* C12: the scheduler goes Idle -> Collecting -> Idle: before the startup
\* Collect it consumes no tick and no refresh request, it leaves the start by
\* one Collect, and afterwards every Collect consumes exactly one tick or one
\* refresh request and every tick or request consumed starts exactly one.
C12_OneCollectPerTrigger ==
  [][/\ lpc = "start" => (tickPending' >= tickPending /\ refreshNow' >= refreshNow)
     /\ (lpc = "start" /\ lpc' # "start") => (now' = now + 1 /\ lpc' = "fetching")
     /\ (lpc = "fetching" /\ lpc' # "fetching") => (lpc' = "select" /\ cpc' = "idle")
     /\ (lpc = "select" /\ now' # now) =>
           /\ now' = now + 1
           /\ lpc' = "fetching"
           /\ \/ tickPending' = tickPending - 1 /\ refreshNow' = refreshNow
              \/ refreshNow' = refreshNow - 1 /\ tickPending' = tickPending
     /\ (lpc' # "done" /\ tickPending' < tickPending) => now' = now + 1
     /\ refreshNow' < refreshNow => now' = now + 1
     /\ (cpc = "idle") = (lpc # "fetching")]_vars

C12_Witness ==
  /\ lpc = "select"
  /\ trigger = "tick"
  /\ now = MaxCycles + 1
  /\ refreshNow = 1
  /\ ~cancelled

\* C13: refresh requests coalesce: the channel holds at most one request,
\* a press while one is pending is dropped without blocking the key handler,
\* and however many presses came since the channel was last emptied, exactly
\* one request (one extra Collect) is pending.
C13_RefreshCoalesces ==
  /\ refreshNow \in {0, 1}
  /\ (presses > 0) = (refreshNow = 1)
  /\ (~cancelled /\ refreshNow = 1) => ENABLED AppKeyRefresh

C13_Witness ==
  /\ presses = MaxPresses
  /\ refreshNow = 1
  /\ cpc \in NetworkWait
  /\ trigger = "refresh"

\* C14 (as claimed): once the context is cancelled, the scheduler waiting in
\* its select starts no new Collect, whatever tick or request is pending.
C14_NoCollectAfterCancel ==
  [][(cancelled /\ lpc = "select") => now' = now]_vars

C16_ShutdownLeavesReadsAlone ==
  cancelled =>
     /\ cpc = "fetchNodes" => ENABLED Quiet(FetchNodesOk)
     /\ cpc = "fetchNodeMetrics" => ENABLED Quiet(FetchNodeMetricsOk)
     /\ cpc = "fetchPodMetrics" => ENABLED Quiet(FetchPodMetricsOk)
     /\ cpc = "listPods" => ENABLED Quiet(ListPodsOk)

\* C17: the Store only moves forward: when a Collect returns without error
\* GetLastMetrics gives exactly the snapshot it returned, the Store changes
\* at no other moment, and the snapshot it takes was started later than the
\* one it replaces and than every other Collect started so far.
C17_StoreMovesForward ==
  [][/\ (ret' # ret /\ ret' # Nil /\ ret'.err = NoErr) => GetLastMetrics' = ret'.m
     /\ GetLastMetrics' # GetLastMetrics =>
          /\ ret' # ret /\ ret' # Nil /\ ret'.err = NoErr
          /\ GetLastMetrics' = ret'.m
          /\ GetLastMetrics'.timestamp = now - 1
          /\ GetLastMetrics # Nil => GetLastMetrics.timestamp < GetLastMetrics'.timestamp]_vars

C17_Witness ==
  /\ Returned
  /\ ret.err = NoErr
  /\ storeBefore # Nil
  /\ lastMetrics = ret.m
  /\ lastMetrics.timestamp = MaxCycles
  /\ storeBefore.timestamp < lastMetrics.timestamp
  /\ lastMetrics.nodes # storeBefore.nodes

\* The snapshots a reader can obtain: the Store and App.metrics.
VisibleOf(store, shown) == { m \in {store, shown} : m # Nil }

\* The totals of m are those of its own lists.
Built(m) ==
  m = calculateAggregates([NewMetrics(m.timestamp) EXCEPT
                              !.nodes = m.nodes, !.pods = m.pods, !.error = m.error])

\* C18: every snapshot a reader can obtain is fully built when it becomes
\* visible (its totals are those of its lists), it is never the ClusterMetrics
\* a running Collect is still filling, and no field of it changes while it
\* is visible.
C18_VisibleSnapshotsAreFinal ==
  [][\A b \in VisibleOf(GetLastMetrics', appMetrics') :
       /\ b \notin VisibleOf(GetLastMetrics, appMetrics) => Built(b)
       /\ cpc' \in NetworkWait \cup {"install"} => metrics'.timestamp # b.timestamp
       /\ \A a \in VisibleOf(GetLastMetrics, appMetrics) :
             a.timestamp = b.timestamp => a = b]_vars

C18_Witness ==
  /\ cpc = "install"
  /\ lastMetrics # Nil
  /\ appMetrics = lastMetrics
  /\ Len(metrics.nodes) > 0
  /\ Len(metrics.pods) > 0
  /\ metrics.totalNodes = 0
  /\ Len(lastMetrics.nodes) > 0
  /\ lastMetrics.totalNodes > 0

\* C19: the Collector holds its lock at no moment at which one of its
\* network reads is outstanding, so a reader's RLock (GetLastMetrics,
\* GetNamespaces) is granted at once while Collect waits on the network.
C19_NoLockAcrossReads ==
  cpc \in NetworkWait => (mu = "free" /\ CanRLock)

C19_Witness ==
  /\ cpc = "listPods"
  /\ GetLastMetrics # Nil
  /\ Len(GetNamespaces) > 1
  /\ CanRLock

\* C20: a redraw leaves the snapshot it renders, and the Store, as they are:
\* node order, workload order and every field.
C20_RenderLeavesSnapshot ==
  [][view' # view => UNCHANGED <<appMetrics, lastMetrics>>]_vars

C20_Witness ==
  /\ view # Nil
  /\ appMetrics # Nil
  /\ view.timestamp = appMetrics.timestamp
  /\ appMetrics = lastMetrics
  /\ Len(view.nodes) = Len(appMetrics.nodes)
  /\ \E i \in DOMAIN view.nodes : view.nodes[i] # appMetrics.nodes[i].name
  /\ Len(view.pods) = TopPods
  /\ Len(appMetrics.pods) > TopPods
  /\ view.pods[1] # <<appMetrics.pods[1].namespace, appMetrics.pods[1].name>>

\* ------------------------------------------------ sort, filter, limit
IsSortCall == arg.op \in {"SortNodes", "SortPods"}
CallKind == IF arg.op = "SortNodes" THEN "nodes" ELSE "pods"
OwnFields == IF arg.op = "SortNodes" THEN NodeSortFields ELSE PodSortFields

\* Two rows have the same key under a field: neither is less than the other.
SameKey(a, b, field) ==
  /\ ~SliceLess(a, b, CallKind, field, TRUE)
  /\ ~SliceLess(b, a, CallKind, field, TRUE)

DistinctKeys(s, field) ==
  \A i, j \in DOMAIN s : i # j => ~SameKey(s[i], s[j], field)

Pos(s, e) == CHOOSE i \in DOMAIN s : s[i] = e
Reverse(s) == [i \in DOMAIN s |-> s[Len(s) + 1 - i]]

\* C21: sorting the result of a sort on the same field in the other direction
\* gives the exact reverse when the keys are distinct, and rows with equal
\* keys keep their input order whatever the direction.
C21_SortReversesAndIsStable ==
  IsSortCall =>
    /\ (Len(out) = 2 /\ DistinctKeys(arg.list, arg.field)) => out[2] = Reverse(out[1])
    /\ Len(out) >= 1 =>
         \A i, j \in DOMAIN arg.list :
           (i < j /\ SameKey(arg.list[i], arg.list[j], arg.field)) =>
             Pos(out[1], arg.list[i]) < Pos(out[1], arg.list[j])

\* C22: a sort on a field of the other table orders the rows by name,
\* ascending.
C22_ForeignFieldSortsByNameAscending ==
  (IsSortCall /\ arg.field \notin OwnFields /\ Len(out) >= 1) =>
    \A i \in 1..(Len(out[1]) - 1) : ~StrLess(out[1][i + 1].name, out[1][i].name)

\* The workloads the filter is to keep.
Kept(w, namespace, includeSystem) ==
  /\ namespace = "" \/ w.namespace = namespace
  /\ includeSystem \/ w.namespace \notin {"kube-system", "kube-public", "kube-node-lease"}

\* r holds rows of s, each once, in the order s has them.
IsSubsequence(r, s) ==
  /\ \A i \in DOMAIN r : \E k \in DOMAIN s : s[k] = r[i]
  /\ \A i, j \in DOMAIN r : i < j => Pos(s, r[i]) < Pos(s, r[j])

\* C23: FilterPods returns, in input order, exactly the workloads in the
\* chosen namespace (any namespace when it is "") that are not in a system
\* namespace unless system workloads are included; 'default' is not a system
\* namespace, and with system workloads included only the namespace filters.
C23_FilterPodsKeepsExactly ==
  (arg.op = "FilterPods" /\ Len(out) = 1) =>
    LET r == out[1]
        has(s, w) == \E k \in DOMAIN s : s[k] = w
    IN /\ IsSubsequence(r, arg.list)
       /\ \A k \in DOMAIN arg.list :
            has(r, arg.list[k]) <=> Kept(arg.list[k], arg.namespace, arg.showSystem)
       /\ (arg.namespace = "" /\ ~arg.showSystem) =>
            /\ \A i \in DOMAIN r : r[i].namespace \notin SystemNamespaces
            /\ \A k \in DOMAIN arg.list :
                 arg.list[k].namespace = "default" => has(r, arg.list[k])
       /\ (arg.namespace = "" /\ arg.showSystem) => r = arg.list

C23_Witness ==
  /\ arg.op = "FilterPods"
  /\ arg.namespace = ""
  /\ ~arg.showSystem
  /\ Len(out) = 1
  /\ Len(arg.list) = 3
  /\ arg.list[1].namespace = "kube-public"
  /\ arg.list[2].namespace = "default"
  /\ arg.list[3].namespace = "kube-node-lease"
  /\ out[1] = <<arg.list[2]>>

\* C24: LimitPods returns the first min(n, len) rows in order, and the slice
\* as it is when n >= len.
C24_LimitPodsTakesPrefix ==
  (arg.op = "LimitPods" /\ Len(out) = 1) =>
    /\ Len(out[1]) = Min(arg.limit, Len(arg.list))
    /\ \A i \in DOMAIN out[1] : out[1][i] = arg.list[i]
    /\ arg.limit >= Len(arg.list) => out[1] = arg.list

C24_Witness ==
  /\ arg.op = "LimitPods"
  /\ Len(out) = 1
  /\ arg.limit = 2
  /\ Len(arg.list) = 3
  /\ out[1] = <<arg.list[1], arg.list[2]>>

\* ------------------------------------------------------ namespace cache
\* C25: once a Collect whose pod list read succeeded has returned,
\* GetNamespaces hands out the namespaces of the pods of that cycle's
\* snapshot, each once, in ascending order.
C25_NamespacesOfCycle ==
  (cpc \in {"returned", "idle"} /\ cyc.podList = "ok") =>
    LET ns == GetNamespaces
        fetched == lastMetrics.pods
    IN /\ \A i \in 1..(Len(ns) - 1) : StrLess(ns[i], ns[i + 1])
       /\ { ns[i] : i \in DOMAIN ns } = { fetched[i].namespace : i \in DOMAIN fetched }

C25_Witness ==
  /\ cpc = "returned"
  /\ cyc.podList = "ok"
  /\ ret.m = lastMetrics
  /\ Len(ret.m.pods) = 3
  /\ ret.m.pods[1].namespace = ret.m.pods[3].namespace
  /\ GetNamespaces = <<"default", "kube-system">>

\* ------------------------------------------------------ merged nodes
\* The Collect in flight has merged the nodes it read.
Merged == cyc.nodes = "ok" /\ cpc \in {"fetchPodMetrics", "listPods", "install", "returned"}

\* C27: a merged node is Ready when its Ready condition is reported true,
\* NotReady when it is reported and not true, Unknown when the node reports
\* no Ready condition; every node has exactly one of the three.
C27_NodeStatusFromReadyCondition ==
  Merged =>
    /\ Len(metrics.nodes) = Len(nodes)
    /\ \A i \in DOMAIN nodes :
         LET st == metrics.nodes[i].status
             ready == nodes[i].kind.ready
         IN /\ metrics.nodes[i].name = nodes[i].name
            /\ st \in {NodeStatusReady, NodeStatusNotReady, NodeStatusUnknown}
            /\ st = NodeStatusReady <=> ready = "True"
            /\ st = NodeStatusNotReady <=> ready = "False"
            /\ st = NodeStatusUnknown <=> ready = "None"

C27_Witness ==
  /\ Merged
  /\ Len(nodes) = 2
  /\ nodes[1].kind.ready = "None"
  /\ nodes[2].kind.ready = "False"
  /\ metrics.nodes[1].status = NodeStatusUnknown
  /\ metrics.nodes[2].status = NodeStatusNotReady

\* C28: when the node usage read succeeded, a node it holds no sample for
\* is in the snapshot with usage 0 and percent 0 for cpu and memory, every
\* other node has its sampled usage, and no error is recorded for it. (The
\* cluster has not changed since the cycle began: the usage read saw the
\* samples of the nodes the node read returned.)
C28_UnsampledNodeIsZero ==
  (Merged /\ cyc.nodeMetrics = "ok" /\ stable >= 1) =>
    /\ Len(metrics.nodes) = Len(nodes)
    /\ \A i \in DOMAIN nodes :
         LET n == metrics.nodes[i]
             sample == nodes[i].kind.sample
         IN /\ n.name = nodes[i].name
            /\ sample = Nil =>
                 /\ n.cpu.current = 0 /\ n.cpu.percent = ZeroPct
                 /\ n.memory.current = 0 /\ n.memory.percent = ZeroPct
            /\ sample # Nil =>
                 /\ n.cpu.current = sample.cpu
                 /\ n.memory.current = sample.mem
    /\ cpc = "fetchPodMetrics" => metrics.error = NoErr

C28_Witness ==
  /\ Merged
  /\ cyc.nodeMetrics = "ok"
  /\ stable >= 1
  /\ cpc = "fetchPodMetrics"
  /\ Len(nodes) = 2
  /\ nodes[1].kind.sample = Nil
  /\ nodes[2].kind.sample # Nil
  /\ metrics.nodes[1].cpu.current = 0
  /\ metrics.nodes[2].cpu.current = 2000
  /\ metrics.error = NoErr

\* C29: the cluster's core count is the sum over the nodes of the whole
\* cores of each (capacity in millicores, divided by 1000, rounded down).
C29_CoresAreFlooredPerNode ==
  (cpc = "returned" /\ ret.err = NoErr) =>
    ret.m.totalCPUCores =
      SumSeq([i \in DOMAIN ret.m.nodes |-> ret.m.nodes[i].cpu.capacity \div 1000])

C29_Witness ==
  /\ cpc = "returned"
  /\ ret.err = NoErr
  /\ Len(ret.m.nodes) = 2
  /\ ret.m.nodes[1].cpu.capacity = 1500
  /\ ret.m.nodes[2].cpu.capacity = 1500
  /\ ret.m.totalCPUCores = 2

\* ----------------------------------------------------------------- main
\* main runs in export mode: --show was given and main got as far as the
\* mode switch.
ExportMode == cfg.showResource # "" /\ mainPc \notin {"parse", "flags", "connect"}

\* Neither loop of the interactive App has taken a step.
NoInteractiveLoop ==
  /\ lpc = "start"
  /\ rpc = "run"
  /\ tickPending = 0
  /\ refreshNow = 0
  /\ appMetrics = Nil
  /\ view = Nil

\* C26 as stated: in export mode there is exactly one Collect and no
\* interactive loop, and the exit code is 0 exactly when that Collect
\* returned no error.
C26_ExportExitFollowsCollect ==
  ExportMode =>
    /\ NoInteractiveLoop
    /\ now <= 2
    /\ ~Alive => /\ now = 2
                 /\ cpc = "returned"
                 /\ exitCode = <<0>> <=> ret.err = NoErr

\* C26, amended: in export mode there is exactly one Collect and no
\* interactive loop; the process exits non-zero when that Collect returned
\* an error, and exits 0 only when it returned none and the document was
\* written (a failed write exits non-zero too).
C26_ExportCollectsOnceThenExits ==
  ExportMode =>
    /\ NoInteractiveLoop
    /\ now <= 2
    /\ mainPc = "encode" => (cpc = "returned" /\ ret.err = NoErr)
    /\ ~Alive => /\ now = 2
                 /\ cpc = "returned"
                 /\ ret.err # NoErr => (exitCode = <<1>> /\ mainPc = "collecting")
                 /\ exitCode = <<0>> => (ret.err = NoErr /\ mainPc = "encode")
                 /\ exitCode \in {<<0>>, <<1>>}

C26_Witness ==
  /\ ExportMode
  /\ exitCode = <<0>>
  /\ now = 2
  /\ ret.err = NoErr
  /\ ret.m.totalPods = 3
  /\ NoInteractiveLoop

\* The Config passes every check of Validate.
Valid(c) ==
  /\ c.refreshInterval >= 500
  /\ c.refreshInterval <= 60000
  /\ c.timeout >= 1000
  /\ c.topPods >= 1
  /\ c.topPods <= 1000

\* C30: Validate succeeds exactly for a refresh interval in [500ms, 60s], a
\* timeout of at least 1s and top-pods in [1, 1000]; with any other Config
\* main does nothing but exit with code 1, and no Collect is issued.
C30_InvalidConfigNeverCollects ==
  /\ Validate(cfg) = NoErr <=> Valid(cfg)
  /\ mainPc # "parse" => Valid(cfg)
  /\ ~Valid(cfg) =>
       /\ now = 1
       /\ cpc = "idle"
       /\ NoInteractiveLoop
       /\ Alive => ENABLED MainParseFlags
       /\ ~Alive => exitCode = <<1>>

C30_Witness ==
  /\ cfg.topPods = 0
  /\ cfg.refreshInterval = 500
  /\ cfg.timeout = 1000
  /\ cfg.showResource = "pods"
  /\ exitCode = <<1>>
  /\ now = 1

C35_GPUInfoWhenEitherEntryPositive ==
  Merged =>
    \A i \in DOMAIN nodes :
      (metrics.nodes[i].gpu # Nil) <=>
        (nodes[i].kind.gpuCap > 0 \/ nodes[i].kind.gpuAlloc > 0)

\* The sample the metrics API holds for the pod of that namespace and name.
SamplesFor(s, namespace, name) ==
  { j \in DOMAIN s.pods : /\ s.pods[j].namespace = namespace
                          /\ s.pods[j].name = name
                          /\ s.pods[j].sample # Nil }

\* C36: a workload's cpu and memory are the sums over the containers of the
\* usage sample with its namespace and its name, and 0 without such a sample;
\* a workload of the same name in another namespace gets none of it.
C36_UsageByNamespaceAndName ==
  (cpc \in {"install", "returned"} /\ cyc.podList = "ok") =>
    \A i \in DOMAIN metrics.pods :
      LET w == metrics.pods[i]
          own == SamplesFor(src, w.namespace, w.name)
      IN IF own = {} THEN w.cpu = 0 /\ w.memory = 0
         ELSE \A j \in own :
                LET cs == src.pods[j].sample.containers
                IN /\ w.cpu = SumSeq([k \in DOMAIN cs |-> cs[k].cpu])
                   /\ w.memory = SumSeq([k \in DOMAIN cs |-> cs[k].mem])

C36_Witness ==
  /\ cpc = "install"
  /\ cyc.podList = "ok"
  /\ \E i, j \in DOMAIN metrics.pods :
       /\ metrics.pods[i].name = metrics.pods[j].name
       /\ metrics.pods[i].namespace = "default"
       /\ metrics.pods[j].namespace = "kube-system"
       /\ metrics.pods[i].cpu = 150
       /\ metrics.pods[i].memory = 3
       /\ metrics.pods[j].cpu = 0
       /\ metrics.pods[j].memory = 0

\* ------------------------------------------------ pending triggers
Pending == tickPending + refreshNow

\* C37: ticks do not pile up behind a slow Collect: at most one tick and at
\* most one refresh request are ever pending, each Collect the scheduler
\* starts from its select takes exactly one of them, and with none pending
\* the scheduler waits; so at most two Collects follow a slow one back to back.
C37_TicksDoNotPileUp ==
  /\ [](/\ tickPending \in {0, 1}
        /\ refreshNow \in {0, 1}
        /\ (lpc = "select" /\ Pending = 0) => ~ENABLED (AppLoopTick \/ AppLoopRefresh))
  /\ [][(lpc = "select" /\ now' # now) => Pending' = Pending - 1]_vars

C37_Witness ==
  /\ cpc = "returned"
  /\ lpc = "fetching"
  /\ tickPending = 1
  /\ refreshNow = 1
  /\ ~cancelled
  /\ now = 2

\* ---------------------------------------------- namespace cache and Store
\* C39 (as claimed): what GetNamespaces returns is at every moment the sorted
\* distinct namespaces of the workloads of the snapshot GetLastMetrics
\* returns (no namespaces while the Store is empty).
C39_NamespacesAgreeWithStore ==
  CanRLock =>
    LET ns == GetNamespaces
        m == GetLastMetrics
        stored == IF m = Nil THEN {} ELSE { m.pods[i].namespace : i \in DOMAIN m.pods }
    IN /\ \A i \in 1..(Len(ns) - 1) : StrLess(ns[i], ns[i + 1])
       /\ { ns[i] : i \in DOMAIN ns } = stored

\* C40: the namespace cache changes only in a step that completes the pod
\* list read of a cycle whose earlier reads succeeded; a cycle that aborts on
\* the node read, or whose pod usage read or pod list read fails, leaves it
\* as it was.
C40_FailedFetchKeepsNamespaces ==
  [][/\ namespaces' # namespaces =>
          (cpc = "listPods" /\ cyc' = [nodes |-> "ok", nodeMetrics |-> cyc.nodeMetrics,
                                       podMetrics |-> "ok", podList |-> "ok"])
     /\ ("fail" \in {cyc'.nodes, cyc'.podMetrics, cyc'.podList} /\ now' = now) =>
          namespaces' = namespaces]_vars

C40_Witness ==
  /\ cpc = "returned"
  /\ cyc.podList = "fail"
  /\ namespaces = <<"default", "kube-system">>
  /\ lastMetrics.pods = <<>>

\* ------------------------------------------------- refresh requests
\* C38: while the scheduler runs and is not cancelled, a refresh request
\* that was accepted into refreshNow is followed by the start of a Collect
\* (cycles are counted by now, up to the bound MaxCycles).
C38_RefreshIsServed ==
  \A k \in 1..MaxCycles :
    (refreshNow = 1 /\ ~cancelled /\ lpc # "done" /\ now = k) ~> (now > k \/ cancelled)

C38_Witness ==
  /\ trigger = "refresh"
  /\ lpc = "fetching"
  /\ cpc = "fetchNodes"
  /\ refreshNow = 0
  /\ presses = 0
  /\ ~cancelled

\* ------------------------------------------------ sort and filter keys
NodeCycle == <<"NodeName", "NodeCPU", "NodeMemory", "NodeStatus", "NodePods">>
PodCycle == <<"PodNamespace", "PodName", "PodCPU", "PodMemory">>

IndexIn(seq, x) == CHOOSE i \in DOMAIN seq : seq[i] = x
NextIn(seq, x) == seq[(IndexIn(seq, x) % Len(seq)) + 1]

RECURSIVE NodeSortPresses(_, _)
NodeSortPresses(st, k) == IF k = 0 THEN st ELSE NodeSortPresses(cycleNodeSort(st), k - 1)

RECURSIVE FilterPresses(_, _, _)
FilterPresses(st, list, k) ==
  IF k = 0 THEN st ELSE FilterPresses(cycleNamespaceFilter(st, list), list, k - 1)

C32_PodSortCycleReachesEveryField ==
  /\ [][(appState'.podSortField # appState.podSortField
           \/ appState'.podSortAsc # appState.podSortAsc) =>
          /\ appState'.podSortField = NextIn(PodCycle, appState.podSortField)
          /\ (appState'.podSortAsc # appState.podSortAsc)
               <=> appState.podSortField = "PodMemory"]_vars
  /\ \A f \in PodSortFields : <>(appState.podSortField = f)

\* C33: with n >= 1 cached namespaces, presses of the filter key starting
\* from "" select the namespaces one after the other in the order of the
\* list and then "" again (period n + 1); every press moves the filter one
\* step along that cycle; with no cached namespace the filter stays.
C33_NamespaceFilterCycle ==
  /\ [](LET n == Len(namespaces)
            all == [appState EXCEPT !.namespaceFilter = ""]
        IN /\ \A k \in 1..n :
                FilterPresses(all, namespaces, k).namespaceFilter = namespaces[k]
           /\ FilterPresses(all, namespaces, n + 1).namespaceFilter = ""
           /\ n = 0 => cycleNamespaceFilter(appState, namespaces) = appState
           /\ \E i \in 1..(n + 1) : (<<"">> \o namespaces)[i] = appState.namespaceFilter)
  /\ [][appState'.namespaceFilter # appState.namespaceFilter =>
          /\ namespaces # <<>>
          /\ appState'.namespaceFilter =
               NextIn(<<"">> \o namespaces, appState.namespaceFilter)]_vars

C33_Witness ==
  /\ Len(namespaces) = 3
  /\ appState.namespaceFilter = namespaces[3]
  /\ appState.nodeSortField = "NodeCPU"
  /\ appState.nodeSortAsc = FALSE

====
